---- MODULE Spec2Model ----
(***************************************************************************)
(* The TSG officer workflow engine (services/tsg-officer): a LangGraph     *)
(* state graph with the nodes route, intake, checklist, followup, diagram, *)
(* review and finalize.  One step of the model is one node execution (one  *)
(* superstep, after which LangGraph checkpoints the state) or one call of  *)
(* the caller (start, resume, fresh turn).  A node that calls interrupt()  *)
(* without a resume value suspends the run and changes nothing; on resume  *)
(* the node is executed again from its first line and interrupt() returns  *)
(* the resume value.                                                       *)
(*                                                                         *)
(* Texts are modelled by a small vocabulary of strings; the functions that *)
(* inspect a text (strip, regular expressions) are tables over that        *)
(* vocabulary giving the result the source computes on each text.          *)
(* Fields that only feed the UI (ui_reasoning_*, *_reasoning, documents)   *)
(* and the timestamps and details of audit events are left out.            *)
(***************************************************************************)
EXTENDS Integers, Sequences, FiniteSets, TLC

VARIABLES
    phase, messages, application_type, application_categories, intake,
    required_fields, missing_fields, checklist_report, followup_index,
    followup_answers, clarification_counts, process_description,
    flowchart_mermaid, flowchart_confirmed, diagram_input_mode,
    diagram_upload, pending_diagram_followup, final_message_sent,
    reviewer_decision, audit_log,
    run, node, resume, interrupt_payload,
    last_turn, turns, steps,
    checkpoints, loaded

caseVars == << phase, messages, application_type, application_categories,
               intake, required_fields, missing_fields, checklist_report,
               followup_index, followup_answers, clarification_counts,
               process_description, flowchart_mermaid, flowchart_confirmed,
               diagram_input_mode, diagram_upload, pending_diagram_followup,
               final_message_sent, reviewer_decision, audit_log >>

\* the engine's position and the ghost variables
engineVars == << run, node, resume, interrupt_payload, last_turn, turns, steps >>

\* the checkpoint store and the invocations in flight against it
storeVars == << checkpoints, loaded >>

vars == << caseVars, engineVars, storeVars >>

-----------------------------------------------------------------------------
(* Bounds of the exploration *)

\* caller turns (resume or fresh invocation) explored per case
MaxTurns == 6
\* flowchart generations in a row after which the generation loop is cut off
MaxLoop == 2
\* checkpoints kept per thread in the concurrent specification
MaxCheckpoints == 5

-----------------------------------------------------------------------------
(* Program constants *)

MAX_EXPLANATION_REQUESTS_PER_QUESTION == 3
BYPASSED_ANSWER_VALUE == "[BYPASSED]"
UPDATE_ANSWERS_TOKEN == "__TSG_UPDATE_FAIL_UNKNOWN__"
MAX_SYNTHESIZED == 8

None == "None"
Phases == {"START", "INTAKE", "CHECKLIST", "NEED_INFO", "DIAGRAM", "REVIEW", "DONE"}
Decisions == {"APPROVE", "CONDITIONAL_APPROVE", "REJECT", "NEED_INFO"}
Nodes == {"route", "intake", "checklist", "followup", "diagram", "review", "finalize"}

-----------------------------------------------------------------------------
(* Generic helpers *)

Range(s) == {s[i] : i \in 1..Len(s)}

Max(a, b) == IF a >= b THEN a ELSE b

\* dict[key] = value
Put(d, k, v) == [x \in DOMAIN d \cup {k} |-> IF x = k THEN v ELSE d[x]]

\* dict.get(key, default)
Get(d, k, default) == IF k \in DOMAIN d THEN d[k] ELSE default

EmptyDict == [x \in {} |-> ""]

\* d1.update(d2)
Update(d1, d2) == [x \in DOMAIN d1 \cup DOMAIN d2 |-> IF x \in DOMAIN d2 THEN d2[x] ELSE d1[x]]

\* a channel without a reducer: the update overwrites the value
add_overwrite(left, right) == right

\* operator.add, the reducer of the messages and audit_log channels
add(left, right) == left \o right

Msg(role, content) == [role |-> role, content |-> content]

\* number of user messages in the transcript: one per resume or fresh turn
UserTurns == Len(SelectSeq(messages, LAMBDA m : m.role = "user"))

-----------------------------------------------------------------------------
(* Vocabulary of texts *)

Blank == " "
ClarifyText == "what does this mean?"
AnswerText == "yes"
SubmissionText == "We use an internal LLM for code review."
FlowchartFieldText == "needs_flowchart: yes"
ApnText == "APN: 123-456-789"
FileText == "flow.png"
StepsText == "step one. step two"
CorrectionText == "add a step"
HelloText == "hello"

QControls == "Which controls apply?"
QControlsPadded == "Which controls apply? "
QLogging == "Where are prompts logged?"
QDiagram == "Please attach the architecture diagram."
QDiagramPadded == "Please attach the architecture diagram. "
QCategory == "Which Chubb AI category applies?"

\* text taken as it was typed
StripNothing(t) == t

\* str.strip()
Strip(t) ==
    CASE t = Blank -> ""
      [] t = QControlsPadded -> QControls
      [] t = QDiagramPadded -> QDiagram
      [] OTHER -> t

\* len(text.split())
WordCount(t) ==
    CASE t = "" -> 0
      [] t = ClarifyText -> 4
      [] t = SubmissionText -> 8
      [] t \in {StepsText} -> 4
      [] t \in {FlowchartFieldText, ApnText, "maybe later"} -> 2
      [] t = CorrectionText -> 3
      [] OTHER -> 1

ContainsQuestionMark(t) == t \in {ClarifyText, QControls, QLogging}
ContainsColon(t) == t \in {FlowchartFieldText, ApnText}
\* _QUESTION_WORD_RE.search(t): the text starts with what/why/how/can/...
StartsWithQuestionWord(t) == t \in {ClarifyText, QControls, QLogging}
StartsWithHowWe(t) == FALSE
\* _CLARIFY_RE.search(t)
MatchesClarifyRe(t) == t \in {ClarifyText}

looks_like_clarification_request(text) ==
    LET t == Strip(text) IN
    IF t = "" THEN FALSE
    ELSE IF ContainsQuestionMark(t) /\ (StartsWithQuestionWord(t) \/ WordCount(t) <= 8) THEN TRUE
    ELSE IF StartsWithQuestionWord(t) /\ ~StartsWithHowWe(t)
            /\ WordCount(t) <= 12 /\ ~ContainsColon(t) THEN TRUE
    ELSE MatchesClarifyRe(t)

\* a counter that stops being stored once it is past the limit
bump_counter_capped(counts, key) ==
    LET k1 == Strip(key)
        k2 == IF k1 = "" THEN "unknown" ELSE k1
        n  == Get(counts, k2, 0) + 1
    IN [counts |-> IF n > 3 THEN counts ELSE Put(counts, k2, n), n |-> n]

\* a counter whose new value is returned but never stored
bump_counter_unsaved(counts, key) ==
    [counts |-> counts, n |-> Get(counts, Strip(key), 0) + 1]

bump_counter(counts, key) ==
    LET k1 == Strip(key)
        k2 == IF k1 = "" THEN "unknown" ELSE k1
        n  == Get(counts, k2, 0) + 1
    IN [counts |-> Put(counts, k2, n), n |-> n]

\* a limit test that is off by one
ExceedsLimitOffByOne(n) == n >= MAX_EXPLANATION_REQUESTS_PER_QUESTION

\* if n > MAX_EXPLANATION_REQUESTS_PER_QUESTION
ExceedsLimit(n) == n > MAX_EXPLANATION_REQUESTS_PER_QUESTION

\* key of a follow-up question in clarification_counts
FollowupKey(question) == "followup::" \o Strip(question)

\* _DIAGRAM_RE / "principle-diagram"
_is_diagram_request(question) ==
    LET q == Strip(question) IN
    IF q = "" THEN FALSE ELSE q \in {QDiagram}

_is_category_followup(question) ==
    LET q == Strip(question) IN
    IF q = "" THEN FALSE ELSE q \in {QCategory}

_AI_CATEGORIES == << "Consumer of Internal AI", "Consumer of External AI", "Internal AI Builder" >>

TwoCategories == "Consumer of External AI, Internal AI Builder"

\* _extract_ai_categories(text): the categories named in the text, in the
\* order of _AI_CATEGORIES
_extract_ai_categories(text) ==
    CASE text \in Range(_AI_CATEGORIES) -> << text >>
      [] text = TwoCategories -> << "Consumer of External AI", "Internal AI Builder" >>
      [] OTHER -> << >>

\* ", ".join(cats)
JoinCategories(cats) ==
    IF Len(cats) = 0 THEN ""
    ELSE IF Len(cats) = 1 THEN cats[1]
    ELSE IF cats = << "Consumer of External AI", "Internal AI Builder" >> THEN TwoCategories
    ELSE cats[1] \o ", " \o cats[2]

_pick_primary_category(categories) ==
    IF Len(categories) = 0 THEN "tsg_general"
    ELSE IF "Internal AI Builder" \in Range(categories) THEN "Internal AI Builder"
    ELSE categories[1]

_required_fields_for(at) ==
    IF at = "building_permit"
    THEN << "project_address", "apn", "bsn", "scope_summary", "submission_text", "needs_flowchart" >>
    ELSE << "submission_text" >>

\* _try_parse_fields(text): the "field: value" patterns found in the text.
\* fields: the string-valued fields found; cats: application_categories
_try_parse_fields(text) ==
    LET cats == _extract_ai_categories(text)
        f0 == IF text = ApnText THEN Put(EmptyDict, "apn", "123-456-789") ELSE EmptyDict
        f1 == IF text = FlowchartFieldText THEN Put(f0, "needs_flowchart", "yes") ELSE f0
        f2 == IF Len(cats) > 0 THEN Put(f1, "application_type", JoinCategories(cats)) ELSE f1
    IN [fields |-> f2, cats |-> cats]

_last_user_text(msgs) ==
    LET us == SelectSeq(msgs, LAMBDA m : m.role = "user")
    IN IF Len(us) = 0 THEN "" ELSE us[Len(us)].content

-----------------------------------------------------------------------------
(* The engine: one run of the graph per call of the caller *)

NoInterrupt == [type |-> "none", field |-> "", index |-> -1, question |-> ""]
NoTurn == [type |-> "none", index |-> -1, question |-> "", reply |-> "", outcome |-> ""]

\* make_event(event, details): the event name
make_event(event) == event

\* the sessions that share the compiled graph and its checkpointer
Callers == {1, 2}

\* the checkpoint a thread starts from, and a caller with no invocation in flight
FirstCheckpoint == [parent |-> 0, messages |-> << >>, audit_log |-> << >>]
NotLoaded == [at |-> 0, reply |-> ""]

\* new_case_state()
Init ==
    /\ phase = "START"
    /\ messages = << >>
    /\ application_type = None
    /\ application_categories = << >>
    /\ intake = [fields |-> EmptyDict, application_categories |-> << >>]
    /\ required_fields = << >>
    /\ missing_fields = << >>
    /\ checklist_report = << >>
    /\ followup_index = 0
    /\ followup_answers = EmptyDict
    /\ clarification_counts = [x \in {} |-> 0]
    /\ process_description = None
    /\ flowchart_mermaid = None
    /\ flowchart_confirmed = FALSE
    /\ diagram_input_mode = None
    /\ diagram_upload = << >>
    /\ pending_diagram_followup = << >>
    /\ final_message_sent = FALSE
    /\ reviewer_decision = None
    /\ audit_log = << >>
    /\ run = "new"
    /\ node = "route"
    /\ resume = << >>
    /\ interrupt_payload = NoInterrupt
    /\ last_turn = NoTurn
    /\ turns = [x \in {} |-> 0]
    /\ steps = 0
    /\ checkpoints = << FirstCheckpoint >>
    /\ loaded = [c \in Callers |-> NotLoaded]

\* Command(goto=n): the node has returned, the next node is scheduled
Goto(n) ==
    /\ run' = "running"
    /\ node' = n
    /\ resume' = << >>
    /\ interrupt_payload' = NoInterrupt
    /\ steps' = steps + 1
    /\ UNCHANGED storeVars

\* interrupt(payload) without a resume value: the run stops at this node and
\* none of the node's updates is applied
Suspend(payload) ==
    /\ run' = "suspended"
    /\ node' = node
    /\ resume' = << >>
    /\ interrupt_payload' = payload
    /\ steps' = steps + 1
    /\ UNCHANGED storeVars
    /\ UNCHANGED << caseVars, last_turn, turns >>

Running(n) == run = "running" /\ node = n

\* a call of the language-model service raised outside any try/except: the
\* exception leaves graph.invoke, the node's update is not applied. What the
\* session does after the error is not followed further.
Raise ==
    /\ run' = "failed"
    /\ node' = node
    /\ resume' = << >>
    /\ interrupt_payload' = NoInterrupt
    /\ steps' = steps + 1
    /\ UNCHANGED << caseVars, last_turn, turns, storeVars >>

\* the replies explored at each kind of suspension
RepliesFor(type) ==
    CASE type = "intake_question" -> {Blank, SubmissionText, FlowchartFieldText}
      [] type = "followup_question" -> {Blank, ClarifyText, AnswerText}
      [] type = "diagram_mode" -> {"upload", "generate"}
      [] type = "diagram_upload" -> {FileText, ""}
      [] type = "process_description" -> {StepsText, Blank}
      [] type = "flowchart_confirm" -> {"yes", CorrectionText, Blank}
      [] type = "review_decision" -> {"APPROVE", "conditional-approve", "maybe later",
                                        Blank, UPDATE_ANSWERS_TOKEN}
      [] OTHER -> {}

\* the replies explored for the pending question: the permit fields are
\* answered with a short value or with a "field: value" snippet
RepliesTo(payload) ==
    IF payload.type = "intake_question" /\ payload.field # "submission_text"
    THEN {AnswerText, ApnText}
    ELSE RepliesFor(payload.type)

InvokeTexts == {HelloText}

\* graph.invoke(new_case_state(thread_id), config)
Start ==
    /\ run = "new"
    /\ run' = "running"
    /\ node' = "route"
    /\ steps' = 0
    /\ UNCHANGED storeVars
    /\ UNCHANGED << caseVars, resume, interrupt_payload, last_turn, turns >>

\* graph.invoke(Command(resume=a, update={"messages": [user a]}), config)
ResumeWith(a) ==
    /\ messages' = add(messages, << Msg("user", a) >>)
    /\ resume' = << a >>
    /\ run' = "running"
    /\ last_turn' = NoTurn
    /\ steps' = 0
    /\ UNCHANGED storeVars
    /\ UNCHANGED << phase, application_type, application_categories, intake,
                    required_fields, missing_fields, checklist_report,
                    followup_index, followup_answers, clarification_counts,
                    process_description, flowchart_mermaid, flowchart_confirmed,
                    diagram_input_mode, diagram_upload, pending_diagram_followup,
                    final_message_sent, reviewer_decision, audit_log,
                    node, interrupt_payload, turns >>

Resume ==
    /\ run = "suspended"
    /\ UserTurns < MaxTurns
    /\ \E a \in RepliesTo(interrupt_payload) : ResumeWith(a)

\* graph.invoke({"messages": [user m]}, config): a fresh turn on the same
\* thread; the run starts at the entry node whatever was pending
Invoke ==
    /\ run \in {"suspended", "ended"}
    /\ UserTurns < MaxTurns
    /\ \E m \in InvokeTexts : messages' = add(messages, << Msg("user", m) >>)
    /\ run' = "running"
    /\ node' = "route"
    /\ resume' = << >>
    /\ interrupt_payload' = NoInterrupt
    /\ last_turn' = NoTurn
    /\ steps' = 0
    /\ UNCHANGED storeVars
    /\ UNCHANGED << phase, application_type, application_categories, intake,
                    required_fields, missing_fields, checklist_report,
                    followup_index, followup_answers, clarification_counts,
                    process_description, flowchart_mermaid, flowchart_confirmed,
                    diagram_input_mode, diagram_upload, pending_diagram_followup,
                    final_message_sent, reviewer_decision, audit_log, turns >>

-----------------------------------------------------------------------------
(* route *)

\* a router that sends a case waiting for its diagram on to review
RouteTargetSkipsDiagram(p) ==
    CASE p \in {"INTAKE", "NEED_INFO"} -> "intake"
      [] p = "CHECKLIST" -> "checklist"
      [] p \in {"DIAGRAM", "REVIEW"} -> "review"
      [] OTHER -> "finalize"

\* a router that sends a finished case back to intake
RouteTargetNoDone(p) ==
    CASE p = "CHECKLIST" -> "checklist"
      [] p = "DIAGRAM" -> "diagram"
      [] p = "REVIEW" -> "review"
      [] OTHER -> "intake"

RouteTarget(p) ==
    CASE p \in {"INTAKE", "NEED_INFO"} -> "intake"
      [] p = "CHECKLIST" -> "checklist"
      [] p = "DIAGRAM" -> "diagram"
      [] p = "REVIEW" -> "review"
      [] OTHER -> "finalize"

route ==
    /\ Running("route")
    /\ IF phase = "START"
       THEN /\ phase' = "INTAKE"
            /\ messages' = add(messages, << Msg("assistant", "greeting") >>)
            /\ audit_log' = add(audit_log, << make_event("case_started") >>)
            /\ Goto("intake")
       ELSE /\ Goto(RouteTarget(phase))
            /\ UNCHANGED << phase, messages, audit_log >>
    /\ UNCHANGED << application_type, application_categories, intake,
                    required_fields, missing_fields, checklist_report,
                    followup_index, followup_answers, clarification_counts,
                    process_description, flowchart_mermaid, flowchart_confirmed,
                    diagram_input_mode, diagram_upload, pending_diagram_followup,
                    final_message_sent, reviewer_decision, last_turn, turns >>

-----------------------------------------------------------------------------
(* finalize *)

AlreadyDoneNotice == "This case is already marked DONE. Use 'New Case' to start another approval."

\* a finalize that forgets it has run
FinalizedForgotten == FALSE

\* if state.get("final_message_sent"): ...
AlreadyFinalized == final_message_sent

finalize ==
    /\ Running("finalize")
    /\ IF AlreadyFinalized
       THEN /\ messages' = add(messages, << Msg("assistant", AlreadyDoneNotice) >>)
            /\ UNCHANGED << final_message_sent, audit_log >>
       ELSE /\ final_message_sent' = TRUE
            /\ messages' = add(messages, << Msg("assistant", "Case complete") >>)
            /\ audit_log' = add(audit_log, << make_event("finalized") >>)
    \* builder.add_edge("finalize", END)
    /\ run' = "ended"
    /\ node' = "finalize"
    /\ resume' = << >>
    /\ interrupt_payload' = NoInterrupt
    /\ steps' = steps + 1
    /\ UNCHANGED storeVars
    /\ UNCHANGED << phase, application_type, application_categories, intake,
                    required_fields, missing_fields, checklist_report,
                    followup_index, followup_answers, clarification_counts,
                    process_description, flowchart_mermaid, flowchart_confirmed,
                    diagram_input_mode, diagram_upload, pending_diagram_followup,
                    reviewer_decision, last_turn, turns >>

-----------------------------------------------------------------------------
(* intake *)

\* a value that Python treats as true: neither None nor ""
IsSet(v) == v \notin {None, ""}

\* a or b
Or(a, b) == IF IsSet(a) THEN a ELSE b

\* outputs of llm.classify_application_type(...).application_type
ClassifyGuesses == {TwoCategories, "tsg_general", "building_permit"}

\* bool(str(intake_data.get("submission_text") or "").strip())
HasSubmission(d) == Strip(Or(Get(d.fields, "submission_text", None), "")) # ""

\* intake_data.update(parsed)
WithParsed(d, parsed) ==
    [fields |-> Update(d.fields, parsed.fields),
     application_categories |->
        IF Len(parsed.cats) > 0 THEN parsed.cats ELSE d.application_categories]

\* the intake_data it leaves behind, and the dict it returns
_classify_from_submission(d, guess_text) ==
    IF ~HasSubmission(d)
    THEN [d |-> d, application_type |-> Get(d.fields, "application_type", None),
          application_categories |-> d.application_categories]
    ELSE IF Len(d.application_categories) > 0
    THEN [d |-> d, application_type |-> _pick_primary_category(d.application_categories),
          application_categories |-> d.application_categories]
    ELSE LET c0 == _extract_ai_categories(guess_text)
             cats == IF Len(c0) > 0 THEN c0
                     ELSE _extract_ai_categories(Strip(d.fields["submission_text"]))
         IN IF Len(cats) > 0
            THEN [d |-> [fields |-> Put(d.fields, "application_type", JoinCategories(cats)),
                         application_categories |-> cats],
                  application_type |-> _pick_primary_category(cats),
                  application_categories |-> cats]
            ELSE [d |-> [d EXCEPT !.fields = Put(@, "application_type", guess_text)],
                  application_type |-> guess_text,
                  application_categories |-> << >>]

\* a missing-field test with the condition inverted
MissingFieldsInverted(req, d) ==
    SelectSeq(req, LAMBDA f : f \in DOMAIN d.fields /\ d.fields[f] \notin {None, ""})

\* [f for f in required_fields if f not in intake_data or intake_data.get(f) in (None, "")]
MissingFields(req, d) ==
    SelectSeq(req, LAMBDA f : f \notin DOMAIN d.fields \/ d.fields[f] \in {None, ""})

\* required fields are fixed once known; before the submission only the
\* submission itself is asked for
IntakePlanned(d3, c3, pt3) ==
    LET req == IF Len(required_fields) > 0 THEN required_fields
               ELSE IF ~HasSubmission(d3) THEN << "submission_text" >>
               ELSE _required_fields_for(Or(pt3, "tsg_general"))
    IN [intake |-> d3, categories |-> c3, primary_type |-> pt3,
        required_fields |-> req, missing_fields |-> MissingFields(req, d3)]

\* if submission_text is present: classify from it
IntakeClassified(d2, ex, pt0, cl) ==
    IF HasSubmission(d2)
    THEN IntakePlanned(cl.d,
                       IF Len(cl.application_categories) > 0
                       THEN cl.application_categories ELSE ex,
                       Or(cl.application_type, pt0))
    ELSE IntakePlanned(d2, ex, pt0)

\* categories taken from the state, the parsed fields or the primary type
\* intake_data after the categories were parsed out of the primary type
IntakeSeed(d1, pt0, c1, ex) ==
    IF Len(c1) = 0 /\ IsSet(pt0) /\ Len(ex) > 0
    THEN [fields |-> Put(d1.fields, "application_type", JoinCategories(ex)),
          application_categories |-> ex]
    ELSE d1

IntakeSeeded(d1, pt0, c1, guess) ==
    LET ex == IF Len(c1) = 0 /\ IsSet(pt0) THEN _extract_ai_categories(pt0) ELSE c1
        d2 == IntakeSeed(d1, pt0, c1, ex)
    IN IntakeClassified(d2, ex, pt0, _classify_from_submission(d2, guess))

IntakeParsed(d1, guess) ==
    IntakeSeeded(d1,
                 Or(application_type, Get(d1.fields, "application_type", None)),
                 IF Len(application_categories) > 0 THEN application_categories
                 ELSE d1.application_categories,
                 guess)

\* _classify_from_submission(d) reaches llm.classify_application_type(...):
\* there is a submission and no category was given explicitly
CallsClassifier(d) == HasSubmission(d) /\ Len(d.application_categories) = 0

\* the classification before the interrupt calls the classifier
ClassifiesBefore(d1, pt0, c1) ==
    CallsClassifier(IntakeSeed(d1, pt0, c1,
                               IF Len(c1) = 0 /\ IsSet(pt0)
                               THEN _extract_ai_categories(pt0) ELSE c1))

ClassifiesParsed(d1) ==
    ClassifiesBefore(d1,
                     Or(application_type, Get(d1.fields, "application_type", None)),
                     IF Len(application_categories) > 0 THEN application_categories
                     ELSE d1.application_categories)

\* the classification of a submission that was just answered calls the classifier
ClassifiesAfter(b) ==
    /\ Len(b.missing_fields) > 0 /\ resume # << >>
    /\ b.missing_fields[1] = "submission_text" /\ Strip(resume[1]) # ""
    /\ CallsClassifier([b.intake EXCEPT !.fields = Put(@, "submission_text", Strip(resume[1]))])

\* intake(state) up to the point where it either interrupts or returns
IntakeBefore(guess) ==
    IntakeParsed(WithParsed(intake, _try_parse_fields(_last_user_text(messages))), guess)

\* this execution of intake(state) calls llm.classify_application_type(...)
IntakeCallsClassifier ==
    \/ ClassifiesParsed(WithParsed(intake, _try_parse_fields(_last_user_text(messages))))
    \/ \E guess \in ClassifyGuesses : ClassifiesAfter(IntakeBefore(guess))

\* the answer is stored under the asked field; a submission is classified again
IntakeStored(b, field, d4, reclassify, cl) ==
    LET d5  == IF reclassify THEN cl.d ELSE d4
        pt5 == IF reclassify THEN Or(cl.application_type, b.primary_type) ELSE b.primary_type
        req == IF reclassify THEN _required_fields_for(Or(pt5, "tsg_general"))
               ELSE b.required_fields
    IN [field |-> field, intake |-> d5,
        categories |-> IF reclassify /\ Len(cl.application_categories) > 0
                       THEN cl.application_categories ELSE b.categories,
        primary_type |-> pt5,
        required_fields |-> req, missing_fields |-> MissingFields(req, d5)]

IntakeAnswered(b, field, answer_str, d4, guess) ==
    IntakeStored(b, field, d4, field = "submission_text" /\ answer_str # "",
                 _classify_from_submission(d4, guess))

\* the part of intake(state) after interrupt() has returned the answer
IntakeAfter(b, answer, guess) ==
    IntakeAnswered(b, b.missing_fields[1], Strip(answer),
                   [b.intake EXCEPT !.fields = Put(@, b.missing_fields[1], Strip(answer))],
                   guess)

\* Command(update=..., goto=next_goto) after an answer
IntakeCollect(a) ==
    /\ application_type' = a.primary_type
    /\ application_categories' = a.categories
    /\ intake' = a.intake
    /\ required_fields' = a.required_fields
    /\ missing_fields' = a.missing_fields
    /\ phase' = IF Len(a.missing_fields) > 0 THEN "INTAKE" ELSE "CHECKLIST"
    /\ messages' = add(messages, << Msg("assistant", "Got it.") >>)
    /\ audit_log' = add(audit_log, << make_event("intake_field_collected") >>)
    /\ last_turn' = [type |-> "intake_question", index |-> -1,
                     question |-> a.field, reply |-> resume[1],
                     outcome |-> "collected"]
    /\ Goto(IF Len(a.missing_fields) > 0 THEN "intake" ELSE "checklist")
    /\ UNCHANGED turns

IntakeStep(b, guess) ==
    IF Len(b.missing_fields) > 0
    THEN IF resume = << >>
         THEN Suspend([type |-> "intake_question", field |-> b.missing_fields[1],
                       index |-> -1, question |-> ""])
         ELSE IntakeCollect(IntakeAfter(b, resume[1], guess))
    ELSE /\ application_type' = b.primary_type
         /\ application_categories' = b.categories
         /\ intake' = b.intake
         /\ required_fields' = b.required_fields
         /\ missing_fields' = b.missing_fields
         /\ phase' = "CHECKLIST"
         /\ messages' = add(messages, << Msg("assistant", "Intake looks complete.") >>)
         /\ audit_log' = add(audit_log, << make_event("intake_complete") >>)
         /\ Goto("checklist")
         /\ UNCHANGED << last_turn, turns >>

intake_node ==
    /\ Running("intake")
    /\ \/ IntakeCallsClassifier /\ Raise
       \/ \E guess \in ClassifyGuesses : IntakeStep(IntakeBefore(guess), guess)
    /\ UNCHANGED << checklist_report, followup_index, followup_answers,
                    clarification_counts, process_description, flowchart_mermaid,
                    flowchart_confirmed, diagram_input_mode, diagram_upload,
                    pending_diagram_followup, final_message_sent, reviewer_decision >>

-----------------------------------------------------------------------------
(* checklist *)

\* the rule library served by the rule repository
RuleCtrl == [rule_id |-> "R-CTRL", title |-> "Access controls", severity |-> "BLOCKER",
             applies_to |-> {"Internal AI Builder", "Consumer of External AI"},
             question |-> QControls]
RuleLog  == [rule_id |-> "R-LOG", title |-> "Prompt logging", severity |-> "WARN",
             applies_to |-> {"Internal AI Builder"}, question |-> ""]
RuleDiag == [rule_id |-> "R-DIAG", title |-> "Architecture diagram", severity |-> "BLOCKER",
             applies_to |-> {}, question |-> QDiagram]
RuleCat  == [rule_id |-> "R-CAT", title |-> "AI category", severity |-> "BLOCKER",
             applies_to |-> {}, question |-> QCategory]
RuleLibrary == << RuleCtrl, RuleLog, RuleDiag, RuleCat >>

\* YamlRuleRepository.list_rules(application_type)
list_rules(at) ==
    SelectSeq(RuleLibrary, LAMBDA r : r.applies_to = {} \/ at \in r.applies_to)

\* seen[rid] = d for every rule of every category, then list(seen.values()):
\* one entry per rule id, in the order of first insertion
\* a union that keeps every occurrence of a rule
KeepAllRules(rs, acc) == acc \o rs

RECURSIVE DedupeRules(_, _)
DedupeRules(rs, acc) ==
    IF Len(rs) = 0 THEN acc
    ELSE LET r == Head(rs) IN
         IF r.rule_id = "" \/ \E i \in 1..Len(acc) : acc[i].rule_id = r.rule_id
         THEN DedupeRules(Tail(rs), acc)
         ELSE DedupeRules(Tail(rs), Append(acc, r))

RECURSIVE ConcatRules(_)
ConcatRules(cats) ==
    IF Len(cats) = 0 THEN << >> ELSE list_rules(Head(cats)) \o ConcatRules(Tail(cats))

RulesFor(categories, label) ==
    IF Len(categories) > 0 THEN DedupeRules(ConcatRules(categories), << >>)
    ELSE list_rules(label)

\* rule_by_id.get(rid, {}).get("question") or ""
RuleQuestion(rules, rid) ==
    IF \E i \in 1..Len(rules) : rules[i].rule_id = rid
    THEN (CHOOSE r \in Range(rules) : r.rule_id = rid).question
    ELSE ""

_normalize_categories ==
    IF Len(application_categories) > 0 THEN application_categories
    ELSE IF Len(intake.application_categories) > 0 THEN intake.application_categories
    ELSE _extract_ai_categories(
            Or(Or(application_type, Get(intake.fields, "application_type", None)), ""))

Item(rule, status) ==
    [rule_id |-> rule.rule_id, title |-> rule.title, status |-> status,
     severity |-> rule.severity, missing |-> << >>]

\* reports the language-model service may return (generate_checklist_report)
ReportClean   == [followup_questions |-> << >>,
                  checklist |-> << Item(RuleCtrl, "PASS") >>]
ReportAsk     == [followup_questions |-> << QControls, QLogging >>,
                  checklist |-> << Item(RuleCtrl, "UNKNOWN"), Item(RuleLog, "FAIL") >>]
ReportDiagram == [followup_questions |-> << QDiagram, QControls >>,
                  checklist |-> << Item(RuleDiag, "UNKNOWN") >>]
ReportSilent  == [followup_questions |-> << >>,
                  checklist |-> << Item(RuleLog, "UNKNOWN"), Item(RuleCtrl, "UNKNOWN") >>]
ReportCategory == [followup_questions |-> << QCategory >>,
                   checklist |-> << Item(RuleCat, "UNKNOWN") >>]
ReportPadded == [followup_questions |-> << QDiagramPadded, QControlsPadded >>,
                 checklist |-> << Item(RuleDiag, "UNKNOWN") >>]
LLMReports == {ReportClean, ReportAsk, ReportDiagram, ReportSilent, ReportCategory,
               ReportPadded}
\* a report that repeats an answered question ahead of a diagram request
ReportLate == [followup_questions |-> << QCategory, QDiagram >>,
               checklist |-> << Item(RuleDiag, "UNKNOWN") >>]
\* a report that asks one question twice, the texts differing in whitespace
ReportTwins == [followup_questions |-> << QControlsPadded, QControls >>,
                checklist |-> << Item(RuleCtrl, "UNKNOWN") >>]
\* the reports explored for a submission text: the follow-up answers are part
\* of the text, and the report that repeats an answered question is explored
\* once the category question has been answered; the report with the doubled
\* question is explored for the first pass on a submission that names
\* needs_flowchart
ReportsFor(answers) ==
    IF QCategory \in DOMAIN answers THEN LLMReports \cup {ReportLate}
    ELSE IF answers = EmptyDict /\ Get(intake.fields, "needs_flowchart", None) = "yes"
    THEN LLMReports \cup {ReportTwins}
    ELSE LLMReports

\* the question synthesized for one UNKNOWN BLOCKER/WARN item
SynthesizedQuestion(rules, item) ==
    LET q == Strip(RuleQuestion(rules, Strip(item.rule_id)))
        title == Strip(Or(Or(item.title, item.rule_id), "this requirement"))
        missing_hint == IF Len(item.missing) > 0 THEN Strip(item.missing[1]) ELSE ""
    IN IF q # "" THEN q
       ELSE IF missing_hint # "" THEN title \o ": " \o missing_hint
       ELSE "Please provide the information/evidence needed for: " \o title

RECURSIVE Synthesize(_, _, _, _)
Synthesize(items, rules, has_categories, synthesized) ==
    IF Len(items) = 0 THEN synthesized
    ELSE LET item == Head(items)
             q == SynthesizedQuestion(rules, item)
         IN IF item.status # "UNKNOWN" \/ item.severity \notin {"BLOCKER", "WARN"}
               \/ (has_categories /\ _is_category_followup(q))
            THEN Synthesize(Tail(items), rules, has_categories, synthesized)
            ELSE LET s2 == IF q # "" /\ q \notin Range(synthesized)
                           THEN Append(synthesized, q) ELSE synthesized
                 IN IF Len(s2) >= MAX_SYNTHESIZED THEN s2
                    ELSE Synthesize(Tail(items), rules, has_categories, s2)

\* followup_questions of the report after the category filter and the synthesis
ChecklistFollowups(report, categories, rules) ==
    LET f0 == report.followup_questions
        f1 == IF Len(categories) > 0 /\ Len(f0) > 0
              THEN SelectSeq(f0, LAMBDA q : ~_is_category_followup(q)) ELSE f0
        syn == Synthesize(report.checklist, rules, Len(categories) > 0, << >>)
    IN IF Len(f1) = 0 /\ Len(report.checklist) > 0 /\ Len(syn) > 0 THEN syn ELSE f1

needs_flowchart == Or(Get(intake.fields, "needs_flowchart", None), "") \in {"yes", "y", "true"}
has_flowchart == IsSet(flowchart_mermaid) /\ flowchart_confirmed

\* a checklist that asks for a diagram whether or not one is required
ChecklistGotoAnyDiagram(followups, answered_before) ==
    IF Len(followups) > 0
    THEN IF answered_before THEN "review" ELSE "followup"
    ELSE IF ~has_flowchart THEN "diagram"
    ELSE "review"

\* a checklist that asks its follow-up questions on every pass
ChecklistGotoAlwaysAsk(followups, answered_before) ==
    IF Len(followups) > 0 THEN "followup"
    ELSE IF needs_flowchart /\ ~has_flowchart THEN "diagram"
    ELSE "review"

\* the node the checklist hands over to
ChecklistGoto(followups, answered_before) ==
    IF Len(followups) > 0
    THEN IF answered_before THEN "review" ELSE "followup"
    ELSE IF needs_flowchart /\ ~has_flowchart THEN "diagram"
    ELSE "review"

\* a Checklist that leaves the phase it was entered with
PhaseOfStale(goto) == "CHECKLIST"

PhaseOf(goto) ==
    CASE goto = "followup" -> "NEED_INFO"
      [] goto = "diagram" -> "DIAGRAM"
      [] goto = "review" -> "REVIEW"
      [] goto = "checklist" -> "CHECKLIST"
      [] OTHER -> "DONE"

checklist ==
    /\ Running("checklist")
    /\ \/ Raise   \* llm.generate_checklist_report(...) raised
       \/ \E llm_report \in ReportsFor(followup_answers) :
        LET categories == _normalize_categories
            label == IF Len(categories) > 0 THEN JoinCategories(categories)
                     ELSE Or(Or(application_type, Get(intake.fields, "application_type", None)),
                             "tsg_general")
            rules == RulesFor(categories, label)
            followups == ChecklistFollowups(llm_report, categories, rules)
            answered_before == DOMAIN followup_answers # {}
            goto == ChecklistGoto(followups, answered_before)
        IN /\ phase' = PhaseOf(goto)
           /\ checklist_report' = << [llm_report EXCEPT !.followup_questions = followups] >>
           /\ messages' = add(messages, << Msg("assistant", "Checklist complete.") >>)
           /\ audit_log' = add(audit_log, << make_event("checklist_generated") >>)
           /\ IF goto = "followup"
              THEN followup_index' = 0 /\ followup_answers' = EmptyDict
              ELSE UNCHANGED << followup_index, followup_answers >>
           /\ Goto(goto)
    /\ UNCHANGED << application_type, application_categories, intake, required_fields,
                    missing_fields, clarification_counts, process_description,
                    flowchart_mermaid, flowchart_confirmed, diagram_input_mode,
                    diagram_upload, pending_diagram_followup, final_message_sent,
                    reviewer_decision, last_turn, turns >>

-----------------------------------------------------------------------------
(* followup *)

Followups == IF checklist_report = << >> THEN << >> ELSE checklist_report[1].followup_questions

\* while idx < len(followups) and str(followups[idx]) in answers: idx += 1
\* (indices count from 0 as in the source; followups[idx] is fs[idx + 1])
\* a follow-up loop that does not skip answered questions
SkipNothing(fs, answers, idx) == idx

RECURSIVE SkipAnswered(_, _, _)
SkipAnswered(fs, answers, idx) ==
    IF idx < Len(fs) /\ fs[idx + 1] \in DOMAIN answers
    THEN SkipAnswered(fs, answers, idx + 1)
    ELSE idx

\* a state reader that never recognises an uploaded reference
UploadIgnored(upload) == FALSE

_has_uploaded_diagram(upload) ==
    upload # << >> /\ (IsSet(upload[1].path) \/ IsSet(upload[1].name))

_has_confirmed_mermaid == IsSet(flowchart_mermaid) /\ flowchart_confirmed

\* f"Diagram uploaded: {name}{suffix}"
UploadAnswer(meta) ==
    "Diagram uploaded: " \o Strip(Or(meta.name, "diagram"))
        \o (IF Strip(meta.path) # "" THEN " (path: " \o Strip(meta.path) \o ")" ELSE "")

\* _diagram_answer_from_state(state): None when there is no diagram evidence
_diagram_answer_from_state ==
    IF _has_uploaded_diagram(diagram_upload)
    THEN UploadAnswer(diagram_upload[1])
    ELSE IF Strip(Or(flowchart_mermaid, "")) # "" /\ flowchart_confirmed
    THEN "Diagram generated and confirmed. Mermaid: " \o Strip(flowchart_mermaid)
    ELSE None

\* counts a reply delivered to the follow-up question as one turn for it
CountTurn(question) == Put(turns, question, Get(turns, question, 0) + 1)

followup ==
    /\ Running("followup")
    /\ LET fs  == Followups
           idx == SkipAnswered(fs, followup_answers, followup_index)
       IN
       IF Len(fs) = 0 \/ idx >= Len(fs)
       THEN \* back to checklist re-run
            /\ phase' = "CHECKLIST"
            /\ messages' = add(messages, << Msg("assistant", "Re-running the checklist.") >>)
            /\ audit_log' = add(audit_log, << make_event("followups_complete") >>)
            /\ Goto("checklist")
            /\ UNCHANGED << followup_index, followup_answers, clarification_counts,
                            pending_diagram_followup, last_turn, turns >>
       ELSE
       LET question == fs[idx + 1] IN
       IF _is_diagram_request(question)
       THEN IF _diagram_answer_from_state # None
            THEN \* diagram evidence on file: auto-answer and advance
                 /\ followup_answers' = Put(followup_answers, question, _diagram_answer_from_state)
                 /\ followup_index' = idx + 1
                 /\ messages' = add(messages, << Msg("assistant", "Diagram evidence already on file.") >>)
                 /\ audit_log' = add(audit_log, << make_event("followup_answer_auto_filled") >>)
                 /\ Goto("followup")
                 /\ UNCHANGED << phase, clarification_counts, pending_diagram_followup,
                                 last_turn, turns >>
            ELSE \* route to the diagram node
                 /\ phase' = "DIAGRAM"
                 /\ pending_diagram_followup' = << [index |-> idx, question |-> question] >>
                 /\ messages' = add(messages, << Msg("assistant", "This follow-up requires a diagram.") >>)
                 /\ audit_log' = add(audit_log, << make_event("diagram_followup_routed") >>)
                 /\ Goto("diagram")
                 /\ UNCHANGED << followup_index, followup_answers, clarification_counts,
                                 last_turn, turns >>
       ELSE
       IF resume = << >>
       THEN Suspend([type |-> "followup_question", field |-> "", index |-> idx,
                     question |-> question])
       ELSE
       LET answer_str == Strip(resume[1])
           turn(outcome) == [type |-> "followup_question", index |-> idx,
                             question |-> question, reply |-> resume[1],
                             outcome |-> outcome]
       IN
       IF answer_str = ""
       THEN /\ messages' = add(messages, << Msg("assistant", "I didn't catch an answer.") >>)
            /\ audit_log' = add(audit_log, << make_event("followup_empty_answer") >>)
            /\ last_turn' = turn("empty")
            /\ Goto("followup")
            /\ UNCHANGED << phase, followup_index, followup_answers, clarification_counts,
                            pending_diagram_followup, turns >>
       ELSE IF looks_like_clarification_request(answer_str)
       THEN LET bumped == bump_counter(clarification_counts, FollowupKey(question)) IN
            IF ExceedsLimit(bumped.n)
            THEN \* too many clarification requests: bypass the question
                 /\ clarification_counts' = bumped.counts
                 /\ followup_answers' = Put(followup_answers, question, BYPASSED_ANSWER_VALUE)
                 /\ followup_index' = idx + 1
                 /\ messages' = add(messages, << Msg("assistant", "Bypassing this question.") >>)
                 /\ audit_log' = add(audit_log, << make_event("followup_bypassed_after_clarifications") >>)
                 /\ last_turn' = turn("bypassed")
                 /\ turns' = CountTurn(question)
                 /\ Goto("followup")
                 /\ UNCHANGED << phase, pending_diagram_followup >>
            ELSE \* explain and re-ask
                 /\ clarification_counts' = bumped.counts
                 /\ messages' = add(messages, << Msg("assistant", "clarification") >>)
                 /\ audit_log' = add(audit_log, << make_event("followup_clarification_provided") >>)
                 /\ last_turn' = turn("clarified")
                 /\ turns' = CountTurn(question)
                 /\ Goto("followup")
                 /\ UNCHANGED << phase, followup_index, followup_answers,
                                 pending_diagram_followup >>
       ELSE /\ followup_answers' = Put(followup_answers, question, answer_str)
            /\ followup_index' = idx + 1
            /\ messages' = add(messages, << Msg("assistant", "Noted. Thanks.") >>)
            /\ audit_log' = add(audit_log, << make_event("followup_answer_collected") >>)
            /\ last_turn' = turn("answered")
            /\ turns' = CountTurn(question)
            /\ Goto("followup")
            /\ UNCHANGED << phase, clarification_counts, pending_diagram_followup >>
    /\ UNCHANGED << application_type, application_categories, intake, required_fields,
                    missing_fields, checklist_report, process_description,
                    flowchart_mermaid, flowchart_confirmed, diagram_input_mode,
                    diagram_upload, final_message_sent, reviewer_decision >>

-----------------------------------------------------------------------------
(* diagram *)

\* outputs of llm.generate_flowchart(...).mermaid
\* the number of times ev ends the log
RECURSIVE TrailingCount(_, _)
TrailingCount(log, ev) ==
    IF Len(log) = 0 \/ log[Len(log)] # ev THEN 0
    ELSE 1 + TrailingCount(SubSeq(log, 1, Len(log) - 1), ev)

Mermaids == {"flowchart TD", ""}

\* _diagram_complete(state), on the state merged with the node's updates
DiagramComplete(upload, mermaid, confirmed) ==
    _has_uploaded_diagram(upload) \/ (IsSet(mermaid) /\ confirmed)

_diagram_complete == DiagramComplete(diagram_upload, flowchart_mermaid, flowchart_confirmed)

\* _diagram_answer_for_followup({**state, **updates})
_diagram_answer_for_followup(upload, mermaid, confirmed) ==
    IF _has_uploaded_diagram(upload) THEN UploadAnswer(upload[1])
    ELSE IF Strip(Or(mermaid, "")) # "" /\ confirmed
    THEN "Diagram generated and confirmed. Mermaid: " \o Strip(mermaid)
    ELSE "Diagram provided."

\* follow-up index after the diagram question: max(current_idx, idx + 1)
NextIndexAfterDiagram(current_idx, idx) == Max(current_idx, idx + 1)

\* _route_after_diagram(state, updates): upload and confirmed are the values
\* of diagram_upload and flowchart_confirmed after the node's own updates
_route_after_diagram(upload, confirmed) ==
    /\ diagram_input_mode' = None
    /\ IF pending_diagram_followup # << >> /\ IsSet(pending_diagram_followup[1].question)
       THEN LET idx == pending_diagram_followup[1].index
                question == Strip(pending_diagram_followup[1].question)
            IN /\ followup_answers' =
                    IF question # ""
                    THEN Put(followup_answers, question,
                             _diagram_answer_for_followup(upload, flowchart_mermaid, confirmed))
                    ELSE followup_answers
               /\ followup_index' = NextIndexAfterDiagram(followup_index, idx)
               /\ phase' = "NEED_INFO"
               /\ pending_diagram_followup' = << >>
               /\ Goto("followup")
       ELSE /\ phase' = "REVIEW"
            /\ Goto("review")
            /\ UNCHANGED << followup_answers, followup_index, pending_diagram_followup >>

DiagramTurn(type, outcome) ==
    [type |-> type, index |-> -1, question |-> "", reply |-> resume[1], outcome |-> outcome]

diagram ==
    /\ Running("diagram")
    /\ IF _diagram_complete
       THEN /\ _route_after_diagram(diagram_upload, flowchart_confirmed)
            /\ UNCHANGED << messages, audit_log, diagram_upload, process_description,
                            flowchart_mermaid, flowchart_confirmed, last_turn >>
       ELSE IF diagram_input_mode \notin {"upload", "generate"}
       THEN \* step 0: choose the input mode
            IF resume = << >>
            THEN Suspend([type |-> "diagram_mode", field |-> "", index |-> -1, question |-> ""])
            ELSE /\ diagram_input_mode' =
                        IF Strip(resume[1]) \in {"1", "upload", "file", "upload_file"}
                        THEN "upload" ELSE "generate"
                 /\ messages' = add(messages, << Msg("assistant", "Okay.") >>)
                 /\ audit_log' = add(audit_log, << make_event("diagram_mode_selected") >>)
                 /\ last_turn' = DiagramTurn("diagram_mode", "selected")
                 /\ Goto("diagram")
                 /\ UNCHANGED << phase, followup_answers, followup_index,
                                 pending_diagram_followup, diagram_upload,
                                 process_description, flowchart_mermaid, flowchart_confirmed >>
       ELSE IF diagram_input_mode = "upload"
       THEN \* upload path (the file is not uploaded yet, or the node were complete)
            IF resume = << >>
            THEN Suspend([type |-> "diagram_upload", field |-> "", index |-> -1, question |-> ""])
            ELSE LET meta == << [name |-> resume[1], path |-> resume[1]] >> IN
                 /\ diagram_upload' = meta
                 /\ messages' = add(messages, << Msg("assistant", "Diagram file received.") >>)
                 /\ audit_log' = add(audit_log, << make_event("diagram_file_uploaded") >>)
                 /\ last_turn' = DiagramTurn("diagram_upload", "uploaded")
                 /\ _route_after_diagram(meta, flowchart_confirmed)
                 /\ UNCHANGED << process_description, flowchart_mermaid, flowchart_confirmed >>
       ELSE IF ~IsSet(process_description)
       THEN \* generate path, step 1: collect the description
            IF resume = << >>
            THEN Suspend([type |-> "process_description", field |-> "", index |-> -1,
                          question |-> ""])
            ELSE /\ process_description' = Strip(resume[1])
                 /\ messages' = add(messages, << Msg("assistant", "Generating a draft flowchart.") >>)
                 /\ audit_log' = add(audit_log, << make_event("process_description_collected") >>)
                 /\ last_turn' = DiagramTurn("process_description", "collected")
                 /\ Goto("diagram")
                 /\ UNCHANGED << phase, followup_answers, followup_index,
                                 pending_diagram_followup, diagram_upload, diagram_input_mode,
                                 flowchart_mermaid, flowchart_confirmed >>
       ELSE IF ~IsSet(flowchart_mermaid)
       THEN \* step 2: generate the flowchart
            \/ Raise   \* llm.generate_flowchart(...) raised
            \/ /\ TrailingCount(audit_log, make_event("flowchart_generated")) < MaxLoop
               /\ \E mermaid \in Mermaids : flowchart_mermaid' = mermaid
               /\ flowchart_confirmed' = FALSE
               /\ messages' = add(messages, << Msg("assistant", "Draft flowchart generated.") >>)
               /\ audit_log' = add(audit_log, << make_event("flowchart_generated") >>)
               /\ Goto("diagram")
               /\ UNCHANGED << phase, followup_answers, followup_index, pending_diagram_followup,
                               diagram_upload, diagram_input_mode, process_description, last_turn >>
       ELSE \* step 3: confirm (the flowchart is not confirmed, or the node were complete)
            IF resume = << >>
            THEN Suspend([type |-> "flowchart_confirm", field |-> "", index |-> -1,
                          question |-> ""])
            ELSE IF Strip(resume[1]) \in {"yes", "y", "correct", "confirmed"}
            THEN /\ flowchart_confirmed' = TRUE
                 /\ messages' = add(messages, << Msg("assistant", "Confirmed. Diagram captured.") >>)
                 /\ audit_log' = add(audit_log, << make_event("flowchart_confirmed") >>)
                 /\ last_turn' = DiagramTurn("flowchart_confirm", "confirmed")
                 /\ _route_after_diagram(diagram_upload, TRUE)
                 /\ UNCHANGED << diagram_upload, process_description, flowchart_mermaid >>
            ELSE \/ Raise   \* llm.generate_flowchart(...) raised
                 \/ /\ process_description' = Strip(resume[1])
                    /\ \E mermaid \in Mermaids : flowchart_mermaid' = mermaid
                    /\ flowchart_confirmed' = FALSE
                    /\ messages' = add(messages, << Msg("assistant", "Updated draft generated.") >>)
                    /\ audit_log' = add(audit_log, << make_event("flowchart_regenerated") >>)
                    /\ last_turn' = DiagramTurn("flowchart_confirm", "regenerated")
                    /\ Goto("diagram")
                    /\ UNCHANGED << phase, followup_answers, followup_index,
                                    pending_diagram_followup, diagram_upload, diagram_input_mode >>
    /\ UNCHANGED << application_type, application_categories, intake, required_fields,
                    missing_fields, checklist_report, clarification_counts,
                    final_message_sent, reviewer_decision, turns >>

-----------------------------------------------------------------------------
(* review *)

\* raw.lower().replace("-", "_").replace(" ", "_")
DecisionKey(raw) ==
    CASE raw = "maybe later" -> "maybe_later"
      [] raw = "APPROVE" -> "approve"
      [] raw = "conditional-approve" -> "conditional_approve"
      [] raw = "Approved" -> "approved"
      [] OTHER -> raw

\* a normalisation that lets an unrecognised reply through
NormalizeDecisionLax(raw) ==
    LET key == DecisionKey(raw) IN
    CASE key \in {"approve", "approved"} -> "APPROVE"
      [] key \in {"conditional_approve", "conditional", "cond"} -> "CONDITIONAL_APPROVE"
      [] key \in {"reject", "rejected"} -> "REJECT"
      [] OTHER -> key

\* _ALLOWED.get(key), then the upper-case names, then the default NEED_INFO
NormalizeDecision(raw) ==
    LET key == DecisionKey(raw) IN
    CASE key \in {"approve", "approved"} -> "APPROVE"
      [] key \in {"conditional_approve", "conditional", "cond"} -> "CONDITIONAL_APPROVE"
      [] key \in {"reject", "rejected"} -> "REJECT"
      [] key \in {"need_info", "need more info", "info"} -> "NEED_INFO"
      [] OTHER -> "NEED_INFO"

SeverityRank(severity) ==
    CASE severity = "BLOCKER" -> 0
      [] severity = "WARN" -> 1
      [] severity = "INFO" -> 2
      [] OTHER -> 3

\* ranked.sort(key=rank): a stable sort of the FAIL/UNKNOWN items by severity
RankedItems(items) ==
    LET open == SelectSeq(items, LAMBDA it : it.status \in {"FAIL", "UNKNOWN"})
        of(rank) == SelectSeq(open, LAMBDA it : SeverityRank(it.severity) = rank)
    IN of(0) \o of(1) \o of(2) \o of(3)

\* the question composed for an open checklist item
UpdateQuestion(item) ==
    LET rule_id == Strip(item.rule_id)
        title == Strip(Or(Or(item.title, rule_id), "this requirement"))
        severity == Or(item.severity, "INFO")
        head == IF rule_id # "" THEN rule_id \o " (" \o severity \o ") - " \o title
                ELSE "(" \o severity \o ") - " \o title
    IN IF Len(item.missing) > 0 /\ Strip(item.missing[1]) # ""
       THEN head \o ": Please provide/update: " \o Strip(item.missing[1])
       ELSE head \o ": Please provide additional details/evidence to address this requirement."

\* rule_id.lower() in existing_text: one of the questions names the rule id
MentionsRule(questions, rule_id) ==
    \E i \in 1..Len(questions) :
        \E r \in Range(RuleLibrary) : \E st \in {"FAIL", "UNKNOWN"} :
            r.rule_id = rule_id /\ questions[i] = UpdateQuestion(Item(r, st))

RECURSIVE _dedupe_keep_order(_, _)
_dedupe_keep_order(items, out) ==
    IF Len(items) = 0 THEN out
    ELSE LET key == Strip(Head(items)) IN
         IF key = "" \/ key \in Range(out)
         THEN _dedupe_keep_order(Tail(items), out)
         ELSE _dedupe_keep_order(Tail(items), Append(out, key))

RECURSIVE AppendUpdateQuestions(_, _, _)
AppendUpdateQuestions(ranked, existing, questions) ==
    IF Len(ranked) = 0 THEN questions
    ELSE LET item == Head(ranked) IN
         IF Strip(item.rule_id) # "" /\ MentionsRule(existing, Strip(item.rule_id))
         THEN AppendUpdateQuestions(Tail(ranked), existing, questions)
         ELSE AppendUpdateQuestions(Tail(ranked), existing,
                                    Append(questions, UpdateQuestion(item)))

StripAll(qs) == [i \in 1..Len(qs) |-> Strip(qs[i])]

\* variant: the report's own questions only, nothing synthesized from items
ReportQuestionsOnly ==
    IF checklist_report = << >> THEN << >>
    ELSE _dedupe_keep_order(StripAll(checklist_report[1].followup_questions), << >>)

_synthesize_update_questions ==
    IF checklist_report = << >> THEN << >>
    ELSE LET followups == SelectSeq(StripAll(checklist_report[1].followup_questions),
                                    LAMBDA q : q # "")
         IN _dedupe_keep_order(
                AppendUpdateQuestions(RankedItems(checklist_report[1].checklist),
                                      followups, followups),
                << >>)

\* the follow-up index the update cycle starts from
UpdateCycleIndex == 0

review ==
    /\ Running("review")
    /\ IF IsSet(reviewer_decision)
       THEN /\ phase' = "DONE"
            /\ Goto("finalize")
            /\ UNCHANGED << messages, audit_log, checklist_report, followup_index,
                            reviewer_decision, last_turn >>
       ELSE IF resume = << >>
       THEN Suspend([type |-> "review_decision", field |-> "", index |-> -1, question |-> ""])
       ELSE LET raw == Strip(resume[1]) IN
            IF raw = UPDATE_ANSWERS_TOKEN
            THEN \* update cycle requested before the reviewer decides
                 LET questions == _synthesize_update_questions
                     report == IF checklist_report = << >>
                               THEN [followup_questions |-> << >>, checklist |-> << >>]
                               ELSE checklist_report[1]
                 IN /\ phase' = "NEED_INFO"
                    /\ checklist_report' = << [report EXCEPT !.followup_questions = questions] >>
                    /\ followup_index' = UpdateCycleIndex
                    /\ messages' = add(messages, << Msg("assistant", "Let's update the answers.") >>)
                    /\ audit_log' = add(audit_log, << make_event("user_requested_updates") >>)
                    /\ last_turn' = [type |-> "review_decision", index |-> -1, question |-> "",
                                     reply |-> resume[1], outcome |-> "update"]
                    /\ Goto("followup")
                    /\ UNCHANGED reviewer_decision
            ELSE /\ reviewer_decision' = NormalizeDecision(raw)
                 /\ phase' = "DONE"
                 /\ messages' = add(messages, << Msg("assistant", "Reviewer decision recorded.") >>)
                 /\ audit_log' = add(audit_log, << make_event("reviewer_decision") >>)
                 /\ last_turn' = [type |-> "review_decision", index |-> -1, question |-> "",
                                  reply |-> resume[1], outcome |-> "decided"]
                 /\ Goto("finalize")
                 /\ UNCHANGED << checklist_report, followup_index >>
    /\ UNCHANGED << application_type, application_categories, intake, required_fields,
                    missing_fields, followup_answers, clarification_counts,
                    process_description, flowchart_mermaid, flowchart_confirmed,
                    diagram_input_mode, diagram_upload, pending_diagram_followup,
                    final_message_sent, turns >>

-----------------------------------------------------------------------------
(* The specification *)

Next ==
    \/ Start
    \/ Resume
    \/ Invoke
    \/ route
    \/ intake_node
    \/ checklist
    \/ followup
    \/ diagram
    \/ review
    \/ finalize

Spec == Init /\ [][Next]_vars

-----------------------------------------------------------------------------
(* Invocations of several sessions against the checkpoints of one thread.
   The checkpointer serializes single reads and writes with its internal lock;
   an invocation is a read of the latest checkpoint, the run, and a write. *)

\* the checkpoint with the greatest id
Latest == checkpoints[Len(checkpoints)]

\* replies the sessions send
ConcReplies == {AnswerText, ClarifyText}

\* graph.invoke(Command(resume=a, update=...), config) begins: the latest
\* checkpoint of the thread is read
ConcLoad(c) ==
    /\ loaded[c] = NotLoaded
    /\ Len(checkpoints) < MaxCheckpoints
    /\ \E a \in ConcReplies :
         loaded' = [loaded EXCEPT ![c] = [at |-> Len(checkpoints), reply |-> a]]
    /\ UNCHANGED << checkpoints, caseVars, engineVars >>

\* the run ends: the channels read at the start, with the updates of this
\* invocation applied through their reducers, are written as a new checkpoint
ConcPersist(c) ==
    /\ loaded[c] # NotLoaded
    /\ Len(checkpoints) < MaxCheckpoints
    /\ LET base == checkpoints[loaded[c].at] IN
       checkpoints' = Append(checkpoints,
            [parent |-> loaded[c].at,
             messages |-> add(base.messages, << Msg("user", loaded[c].reply),
                                                Msg("assistant", "Got it.") >>),
             audit_log |-> add(base.audit_log, << make_event("followup_answered") >>)])
    /\ loaded' = [loaded EXCEPT ![c] = NotLoaded]
    /\ UNCHANGED << caseVars, engineVars >>

ConcNext == \E c \in Callers : ConcLoad(c) \/ ConcPersist(c)

ConcSpec == Init /\ [][ConcNext]_vars

-----------------------------------------------------------------------------
(* Properties *)

IsPrefix(s, t) == Len(s) <= Len(t) /\ SubSeq(t, 1, Len(s)) = s

Count(s, e) == Len(SelectSeq(s, LAMBDA x : x = e))

LastMessage == IF Len(messages) = 0 THEN Msg("", "") ELSE messages[Len(messages)]

SuspendedAt(type) == run = "suspended" /\ interrupt_payload.type = type

\* the followup node is about to handle a reply to the question it asked
FollowupReplyStep == Running("followup") /\ resume # << >>
                     /\ interrupt_payload.type = "followup_question"

AskedQuestion == interrupt_payload.question
AskedIndex == interrupt_payload.index
AskedCount == Get(clarification_counts, FollowupKey(AskedQuestion), 0)
ReplyIsBlank == Strip(resume[1]) = ""
ReplyIsClarification == looks_like_clarification_request(Strip(resume[1]))

\* C1: a clarification-style reply to a follow-up question that is the 1st, 2nd
\* or 3rd for the question's key leaves followup_index and followup_answers
\* unchanged and the run suspends next with the same question; the 4th records
\* the answer "[BYPASSED]" for the question and sets followup_index to the
\* question's index + 1.
C1_ClarificationBound ==
    /\ [][(FollowupReplyStep /\ ReplyIsClarification /\ AskedCount < 3)
            => /\ followup_index' = followup_index
               /\ followup_answers' = followup_answers
               /\ clarification_counts'[FollowupKey(AskedQuestion)] = AskedCount + 1
               /\ node' = "followup"]_vars
    /\ [][(FollowupReplyStep /\ ReplyIsClarification /\ AskedCount = 3)
            => /\ AskedQuestion \in DOMAIN followup_answers'
               /\ followup_answers'[AskedQuestion] = "[BYPASSED]"
               /\ followup_index' = AskedIndex + 1]_vars
    /\ []((run = "suspended" /\ last_turn.outcome = "clarified")
            => /\ interrupt_payload.type = "followup_question"
               /\ interrupt_payload.question = last_turn.question
               /\ interrupt_payload.index = last_turn.index)

\* the 4th clarification request has bypassed a question, after the 3rd had
\* re-asked it
C1_Witness ==
    /\ last_turn.outcome = "bypassed"
    /\ followup_answers[last_turn.question] = "[BYPASSED]"
    /\ clarification_counts[FollowupKey(last_turn.question)] = 4
    /\ followup_index = last_turn.index + 1

\* C2: no follow-up question is current for more than 4 turns (resumes with a
\* non-empty reply): a question is never asked again once it has had 4 turns,
\* and after the 4th turn at the latest followup_index is past the question.
C2_AtMostFourTurns ==
    /\ \A q \in DOMAIN turns : turns[q] <= 4
    /\ SuspendedAt("followup_question") => Get(turns, interrupt_payload.question, 0) < 4
    /\ (last_turn.type = "followup_question" /\ Get(turns, last_turn.question, 0) >= 4)
           => followup_index > last_turn.index

\* a question has had its 4th turn and the index has moved past it
C2_Witness ==
    /\ last_turn.type = "followup_question"
    /\ Get(turns, last_turn.question, 0) = 4
    /\ followup_index > last_turn.index
    /\ SuspendedAt("followup_question")

\* C3 as stated: after three clarification requests for the current question,
\* the fourth resume advances followup_index by one and leaves the count at 4,
\* whatever the reply is.
C3_Original ==
    [][(FollowupReplyStep /\ AskedCount = 3)
         => /\ followup_index' = followup_index + 1
            /\ Get(clarification_counts', FollowupKey(AskedQuestion), 0) = 4]_vars

\* C3 amended: after three clarification requests for the current question, a
\* fourth clarification request sets followup_index to the question's index + 1
\* and the count to 4; a real answer sets followup_index to the question's
\* index + 1 and leaves the count at 3; a blank reply changes neither.
C3_FourthReply ==
    [][(FollowupReplyStep /\ AskedCount = 3)
         => IF ReplyIsBlank
            THEN UNCHANGED << followup_index, followup_answers, clarification_counts >>
            ELSE IF ReplyIsClarification
            THEN /\ followup_index' = AskedIndex + 1
                 /\ clarification_counts'[FollowupKey(AskedQuestion)] = 4
                 /\ followup_answers'[AskedQuestion] = "[BYPASSED]"
            ELSE /\ followup_index' = AskedIndex + 1
                 /\ clarification_counts'[FollowupKey(AskedQuestion)] = 3
                 /\ followup_answers'[AskedQuestion] = Strip(resume[1])]_vars

\* a real answer was given as the fourth reply, after three clarification requests
C3_Witness ==
    /\ last_turn.outcome = "answered"
    /\ Get(clarification_counts, FollowupKey(last_turn.question), 0) = 3
    /\ followup_index = last_turn.index + 1

\* the review node is about to handle the update-answers token
UpdateStep == Running("review") /\ resume = << UPDATE_ANSWERS_TOKEN >>
              /\ ~IsSet(reviewer_decision)

C5_AnsweredNeverAsked ==
    SuspendedAt("followup_question") => interrupt_payload.question \notin DOMAIN followup_answers

\* in an update cycle Followup has skipped answered questions and asks a later one
C5_Witness ==
    /\ SuspendedAt("followup_question")
    /\ interrupt_payload.index > followup_index
    /\ \A i \in (followup_index + 1)..interrupt_payload.index :
          Followups[i] \in DOMAIN followup_answers

FinalizedEvents == Count(audit_log, "finalized")

\* C6: a Finalize that runs when the case is already finalized returns the
\* same already-done notice, appends no audit event (the log holds exactly one
\* 'finalized' event once the case is finalized, and never more), and leaves
\* reviewer_decision and the finalized flag as they are.
C6_IdempotentFinalize ==
    /\ [][(Running("finalize") /\ final_message_sent)
            => /\ audit_log' = audit_log
               /\ reviewer_decision' = reviewer_decision
               /\ final_message_sent' = final_message_sent
               /\ messages' = Append(messages, Msg("assistant", AlreadyDoneNotice))]_vars
    /\ [](FinalizedEvents <= 1)
    /\ [](final_message_sent => FinalizedEvents = 1)

\* Finalize has run again on a finalized case
C6_Witness ==
    /\ final_message_sent
    /\ run = "ended"
    /\ LastMessage = Msg("assistant", AlreadyDoneNotice)
    /\ FinalizedEvents = 1

caseButMessages ==
    << phase, application_type, application_categories, intake, required_fields,
       missing_fields, checklist_report, followup_index, followup_answers,
       clarification_counts, process_description, flowchart_mermaid,
       flowchart_confirmed, diagram_input_mode, diagram_upload,
       pending_diagram_followup, final_message_sent, reviewer_decision, audit_log >>

C8_DecisionOnce ==
    /\ [][IsSet(reviewer_decision) => reviewer_decision' = reviewer_decision]_vars
    /\ [][reviewer_decision' # reviewer_decision => reviewer_decision' \in Decisions]_vars
    /\ [](IsSet(reviewer_decision) => ~SuspendedAt("review_decision"))

\* an unrecognised reply was recorded as NEED_INFO and the case was invoked again
C8_Witness ==
    /\ reviewer_decision = "NEED_INFO"
    /\ Count(messages, Msg("user", "maybe later")) = 1
    /\ LastMessage = Msg("assistant", AlreadyDoneNotice)

\* a run of Checklist that received a report from the language-model service
ChecklistPass == Running("checklist") /\ run' # "failed"

\* C9: Checklist picks the next phase by priority: (1) NEED_INFO when the report
\* has follow-up questions and no follow-up answers are on file; (2) otherwise
\* DIAGRAM when a diagram is required and none is confirmed or uploaded, also
\* when follow-up questions remain; (3) otherwise REVIEW.
C9_RoutingPriority ==
    [][ChecklistPass
         => LET questions == checklist_report'[1].followup_questions
                no_answers == DOMAIN followup_answers = {}
                diagram_missing == /\ needs_flowchart
                                   /\ ~_has_confirmed_mermaid
                                   /\ ~_has_uploaded_diagram(diagram_upload)
            IN IF Len(questions) > 0 /\ no_answers
               THEN phase' = "NEED_INFO" /\ node' = "followup"
               ELSE IF diagram_missing
               THEN phase' = "DIAGRAM" /\ node' = "diagram"
               ELSE phase' = "REVIEW" /\ node' = "review"]_vars

WindowMarks == {"intake_complete", "user_requested_updates", "reviewer_decision"}

\* the audit events since intake completed or Review last handled a reply
Window ==
    LET marks == {i \in 1..Len(audit_log) : audit_log[i] \in WindowMarks}
        last == IF marks = {} THEN 0 ELSE CHOOSE i \in marks : \A j \in marks : j <= i
    IN SubSeq(audit_log, last + 1, Len(audit_log))

\* the passes Checklist -> Followup -> Checklist in a sequence of audit events
Rounds(w) ==
    Cardinality({i \in 1..Len(w) : /\ w[i] = "followups_complete"
                                   /\ \E j \in 1..(i - 1) : w[j] = "checklist_generated"})

\* C10: Checklist never hands over to Followup (phase NEED_INFO) when
\* followup_answers is non-empty; and between intake completion and the first
\* Review suspension, or between two Review suspensions, the pass Checklist ->
\* Followup -> Checklist happens at most once.
C10_OneFollowupRound ==
    /\ [][(Running("checklist") /\ DOMAIN followup_answers # {})
            => (node' # "followup" /\ phase' # "NEED_INFO")]_vars
    /\ [](Rounds(Window) <= 1)

\* after one pass the checklist still has follow-up questions and the run is
\* suspended in Review
C10_Witness ==
    /\ SuspendedAt("review_decision")
    /\ Rounds(Window) = 1
    /\ Len(Followups) > 0
    /\ DOMAIN followup_answers # {}

\* C11: a Checklist pass with no follow-up answers on file whose report has an
\* item with status UNKNOWN and severity BLOCKER leaves a non-empty
\* followup_questions in the report and sets phase NEED_INFO.
C11_BlockerNeedsInfo ==
    [][(ChecklistPass /\ DOMAIN followup_answers = {}
          /\ \E i \in 1..Len(checklist_report'[1].checklist) :
                /\ checklist_report'[1].checklist[i].status = "UNKNOWN"
                /\ checklist_report'[1].checklist[i].severity = "BLOCKER")
         => /\ Len(checklist_report'[1].followup_questions) > 0
            /\ phase' = "NEED_INFO"
            /\ node' = "followup"]_vars

\* the follow-up question Followup is at, after the answered ones are skipped
CurrentIndex == SkipAnswered(Followups, followup_answers, followup_index)
CurrentQuestion == Followups[CurrentIndex + 1]

\* Followup is about to run on a diagram question and no diagram is on file
DiagramRerouteStep ==
    /\ Running("followup")
    /\ CurrentIndex < Len(Followups)
    /\ _is_diagram_request(CurrentQuestion)
    /\ ~_has_uploaded_diagram(diagram_upload)
    /\ ~_has_confirmed_mermaid

\* Diagram is about to return to Followup with a diagram uploaded or confirmed
DiagramReturnStep ==
    /\ Running("diagram")
    /\ pending_diagram_followup # << >>
    /\ node' = "followup"
    /\ pending_diagram_followup' = << >>
    /\ DiagramComplete(diagram_upload', flowchart_mermaid', flowchart_confirmed')

\* C12: on a diagram-related current follow-up question with no diagram
\* evidence on file, Followup does not suspend: it records the pending pointer
\* {index, question}, sets phase DIAGRAM and hands over to Diagram; when Diagram
\* returns with the diagram confirmed or uploaded, followup_answers has an
\* entry under exactly the question text of the pointer.
C12_DiagramReroute ==
    /\ [][DiagramRerouteStep
            => /\ run' = "running" /\ node' = "diagram"
               /\ phase' = "DIAGRAM"
               /\ pending_diagram_followup' =
                     << [index |-> CurrentIndex, question |-> CurrentQuestion] >>]_vars
    /\ [][DiagramReturnStep
            => pending_diagram_followup[1].question \in DOMAIN followup_answers']_vars

\* C13: when a Checklist pass yields no follow-up question and no diagram is
\* required, Review runs next and suspends for the review decision, with no
\* Followup or Diagram suspension in between; the resume with APPROVE ends the
\* invocation with phase DONE, reviewer_decision APPROVE and the case finalized.
C13_HappyPath ==
    /\ [][(ChecklistPass /\ ~needs_flowchart
             /\ Len(checklist_report'[1].followup_questions) = 0)
            => /\ node' = "review" /\ run' = "running" /\ resume' = << >>
               /\ phase' = "REVIEW"
               /\ ~IsSet(reviewer_decision')]_vars
    /\ [][(Running("review") /\ resume = << >> /\ ~IsSet(reviewer_decision))
            => (run' = "suspended" /\ interrupt_payload'.type = "review_decision")]_vars
    /\ []((last_turn.type = "review_decision" /\ last_turn.reply = "APPROVE")
            => /\ run \in {"running", "ended"}
               /\ phase = "DONE"
               /\ reviewer_decision = "APPROVE"
               /\ run = "running" => node = "finalize"
               /\ run = "ended" => final_message_sent)

\* the shortest case: one intake answer, a clean checklist, APPROVE
C13_Witness ==
    /\ run = "ended"
    /\ last_turn.type = "review_decision" /\ last_turn.reply = "APPROVE"
    /\ reviewer_decision = "APPROVE" /\ phase = "DONE" /\ final_message_sent
    /\ Len(Followups) = 0 /\ ~needs_flowchart
    /\ DOMAIN followup_answers = {}
    /\ UserTurns = 2

\* one node execution of the running invocation
NodeStep == route \/ intake_node \/ checklist \/ followup \/ diagram \/ review \/ finalize

RecognizedPhases == {"START", "INTAKE", "NEED_INFO", "CHECKLIST", "DIAGRAM", "REVIEW"}

\* C15: on phase START the Router sets phase INTAKE and appends the audit
\* event case_started, which occurs exactly once in the audit_log of a started
\* case; on DONE or any phase it does not recognize it dispatches to Finalize;
\* on every phase other than START it changes no field of the case state.
C15_Router ==
    /\ [][(Running("route") /\ phase = "START")
            => /\ phase' = "INTAKE"
               /\ audit_log' = Append(audit_log, "case_started")
               /\ node' = "intake"]_vars
    /\ [][(Running("route") /\ phase # "START") => UNCHANGED caseVars]_vars
    /\ [][(Running("route") /\ phase \notin RecognizedPhases) => node' = "finalize"]_vars
    /\ [](Count(audit_log, "case_started") <= 1)
    /\ [](phase # "START" => Count(audit_log, "case_started") = 1)

\* the Router has just dispatched a finished case to Finalize
C15_Witness ==
    /\ Running("finalize")
    /\ phase = "DONE" /\ final_message_sent
    /\ steps = 1
    /\ Count(audit_log, "case_started") = 1

\* the node that owns a phase
PhaseOwner(p) ==
    CASE p = "INTAKE" -> "intake"
      [] p = "CHECKLIST" -> "checklist"
      [] p = "NEED_INFO" -> "followup"
      [] p = "DIAGRAM" -> "diagram"
      [] p = "REVIEW" -> "review"
      [] OTHER -> "finalize"

\* C16: an invocation that enters the Router with phase NEED_INFO runs Followup
\* next, INTAKE runs Intake, CHECKLIST runs Checklist, DIAGRAM runs Diagram and
\* REVIEW runs Review.
C16_RouterOwner ==
    [][(Running("route") /\ phase # "START") => node' = PhaseOwner(phase)]_vars

\* Review is about to handle a reply that is not the update-answers token
DecisionStep ==
    /\ Running("review") /\ resume # << >>
    /\ ~IsSet(reviewer_decision)
    /\ Strip(resume[1]) # UPDATE_ANSWERS_TOKEN

\* C17: for every reply other than the update-answers token Review records a
\* reviewer_decision of the closed set, the decision named by the reply when it
\* is a known alias and NEED_INFO when it is not, sets phase DONE and passes
\* control to Finalize in the same invocation.
C17_ReviewNeverFails ==
    [][DecisionStep
         => /\ reviewer_decision' \in {"APPROVE", "CONDITIONAL_APPROVE", "REJECT", "NEED_INFO"}
            /\ resume[1] = "APPROVE" => reviewer_decision' = "APPROVE"
            /\ resume[1] = "conditional-approve" => reviewer_decision' = "CONDITIONAL_APPROVE"
            /\ resume[1] \in {"maybe later", Blank} => reviewer_decision' = "NEED_INFO"
            /\ phase' = "DONE"
            /\ run' = "running" /\ node' = "finalize"]_vars

\* a blank reply was recorded as NEED_INFO and the case was finalized
C17_Witness ==
    /\ last_turn.type = "review_decision" /\ last_turn.reply = Blank
    /\ reviewer_decision = "NEED_INFO"
    /\ phase = "DONE" /\ run = "ended" /\ final_message_sent

\* the FAIL/UNKNOWN items of the current report
OutstandingItems ==
    IF checklist_report = << >> THEN {}
    ELSE {it \in Range(checklist_report[1].checklist) : it.status \in {"FAIL", "UNKNOWN"}}

\* C18: when Review is resumed with the update-answers token no decision is
\* recorded, phase becomes NEED_INFO, the report's follow-up questions are
\* replaced by the outstanding-item questions (the report's own questions,
\* stripped, then one question per FAIL/UNKNOWN item) and Followup runs next;
\* no other step that starts in phase REVIEW leaves it for a phase other than DONE.
C18_UpdateEscapeHatch ==
    /\ [][UpdateStep
            => /\ reviewer_decision' = reviewer_decision /\ ~IsSet(reviewer_decision')
               /\ phase' = "NEED_INFO"
               /\ checklist_report' # << >>
               /\ LET qs == checklist_report'[1].followup_questions IN
                  /\ \A it \in OutstandingItems : UpdateQuestion(it) \in Range(qs)
                  /\ \A q \in Range(qs) :
                        \/ \E it \in OutstandingItems : q = UpdateQuestion(it)
                        \/ \E o \in Range(checklist_report[1].followup_questions) : q = Strip(o)
                  /\ \A i, j \in 1..Len(qs) : qs[i] = qs[j] => i = j
               /\ run' = "running" /\ node' = "followup"]_vars
    /\ [][(phase = "REVIEW" /\ phase' \notin {"REVIEW", "DONE"}) => UpdateStep]_vars

\* the update token sent Review's case back to Followup with questions to ask
C18_Witness ==
    /\ last_turn.type = "review_decision" /\ last_turn.outcome = "update"
    /\ Running("followup") /\ phase = "NEED_INFO"
    /\ ~IsSet(reviewer_decision)
    /\ checklist_report # << >>
    /\ Len(checklist_report[1].followup_questions) >= 2

\* Intake runs without a pending answer
IntakeFreshStep == Running("intake") /\ resume = << >>
\* Intake runs with the answer to its pending question
IntakeResumeStep == Running("intake") /\ resume # << >>

\* what a fresh execution of Intake does when it computes the plan b
IntakeSuspendsOnMissing(b) ==
    /\ (run' = "suspended") <=> (Len(b.missing_fields) > 0)
    /\ Len(b.missing_fields) > 0
         => /\ interrupt_payload'.type = "intake_question"
            /\ interrupt_payload'.field = b.missing_fields[1]
    /\ Len(b.missing_fields) = 0
         => /\ missing_fields' = << >>
            /\ phase' = "CHECKLIST"
            /\ run' = "running" /\ node' = "checklist"

C19_SuspendsOnFirstMissing ==
    [][IntakeFreshStep
         => \E guess \in ClassifyGuesses : IntakeSuspendsOnMissing(IntakeBefore(guess))]_vars

C19_AnswerUnderAskedField ==
    [][IntakeResumeStep
         => /\ interrupt_payload.field \in DOMAIN intake'.fields
            /\ intake'.fields[interrupt_payload.field] = Strip(resume[1])
            /\ last_turn'.question = interrupt_payload.field]_vars

C19_MissingRecomputed ==
    [][IntakeResumeStep
         => /\ missing_fields' = MissingFields(required_fields', intake')
            /\ (Len(missing_fields') = 0)
                 <=> (phase' = "CHECKLIST" /\ run' = "running" /\ node' = "checklist")
            /\ (Len(missing_fields') > 0)
                 <=> (phase' = "INTAKE" /\ run' = "running" /\ node' = "intake")]_vars

\* C19: Intake suspends exactly when the missing fields it computes are
\* non-empty, asking for the first of them; on resume the answer is stored
\* under exactly the field that was asked and missing_fields is recomputed;
\* when no field is missing the phase becomes CHECKLIST and Checklist runs next
\* in the same invocation.
C19_IntakeContract ==
    /\ C19_SuspendsOnFirstMissing
    /\ C19_AnswerUnderAskedField
    /\ C19_MissingRecomputed

\* C20: audit_log and the transcript are append-only: in every step the value
\* before the step is a prefix of the value after it.
C20_AppendOnly ==
    [][IsPrefix(audit_log, audit_log') /\ IsPrefix(messages, messages')]_vars

\* a finished case whose transcript and audit trail have both grown
C20_Witness ==
    /\ run = "ended" /\ final_message_sent
    /\ Len(audit_log) >= 5 /\ Len(messages) >= 8
    /\ audit_log[1] = "case_started"

\* every case field but the audit log
caseButAudit ==
    << phase, messages, application_type, application_categories, intake,
       required_fields, missing_fields, checklist_report, followup_index,
       followup_answers, clarification_counts, process_description,
       flowchart_mermaid, flowchart_confirmed, diagram_input_mode, diagram_upload,
       pending_diagram_followup, final_message_sent, reviewer_decision >>

\* a node execution whose update changes a case field other than audit_log
MutatingStep(n) == Running(n) /\ caseButAudit' # caseButAudit

C21_AuditedAt(n) == MutatingStep(n) => Len(audit_log') > Len(audit_log)

\* C21: whenever a node execution changes any case field other than audit_log,
\* the same update appends at least one event to audit_log.
C21_EveryMutationAudited ==
    [][run = "running" /\ caseButAudit' # caseButAudit
         => Len(audit_log') > Len(audit_log)]_vars

\* the same statement for each node on its own
C21_AtRoute == [][C21_AuditedAt("route")]_vars
C21_AtIntake == [][C21_AuditedAt("intake")]_vars
C21_AtChecklist == [][C21_AuditedAt("checklist")]_vars
C21_AtFollowup == [][C21_AuditedAt("followup")]_vars
C21_AtDiagram == [][C21_AuditedAt("diagram")]_vars
C21_AtReview == [][C21_AuditedAt("review")]_vars
C21_AtFinalize == [][C21_AuditedAt("finalize")]_vars

\* C22: invocations against one case are serialized: no two checkpoints were
\* computed from the same loaded checkpoint, and every persisted result is
\* contained in the latest checkpoint (no update is lost or overwritten).
C22_Serialized ==
    /\ \A i, j \in 2..Len(checkpoints) :
          checkpoints[i].parent = checkpoints[j].parent => i = j
    /\ \A i \in 1..Len(checkpoints) :
          /\ IsPrefix(checkpoints[i].messages, Latest.messages)
          /\ IsPrefix(checkpoints[i].audit_log, Latest.audit_log)

\* C23: a failure of the language-model service never propagates to the
\* caller: no invocation ends with the error, every invocation ends in a
\* suspension or in completion.
C23_FailureContained == run # "failed"

\* the failure reaches the caller from each unguarded call site
C23_AtIntake == ~(run = "failed" /\ node = "intake")
C23_AtChecklist == ~(run = "failed" /\ node = "checklist")
C23_AtDiagram == ~(run = "failed" /\ node = "diagram")

\* the categories and the rule list of the checklist run that is about to happen
ChecklistCategories == _normalize_categories
ChecklistRules ==
    RulesFor(ChecklistCategories,
             IF Len(ChecklistCategories) > 0 THEN JoinCategories(ChecklistCategories)
             ELSE Or(Or(application_type, Get(intake.fields, "application_type", None)),
                     "tsg_general"))

SuspendingNode(type) ==
    CASE type = "intake_question" -> "intake"
      [] type = "followup_question" -> "followup"
      [] type \in {"diagram_mode", "diagram_upload", "process_description",
                   "flowchart_confirm"} -> "diagram"
      [] type = "review_decision" -> "review"
      [] OTHER -> "none"

OwnedPhase(n) ==
    CASE n = "intake" -> "INTAKE"
      [] n = "followup" -> "NEED_INFO"
      [] n = "diagram" -> "DIAGRAM"
      [] n = "review" -> "REVIEW"
      [] OTHER -> "none"

\* C25: suspension occurs only in Intake, Followup, Diagram and Review, with
\* the pending question of that node, and at every suspension the persisted
\* phase is the one the suspending node owns.
C25_SuspensionOwner ==
    run = "suspended"
      => /\ node \in {"intake", "followup", "diagram", "review"}
         /\ SuspendingNode(interrupt_payload.type) = node
         /\ phase = OwnedPhase(node)

\* a suspension of each of the four nodes has been seen in one case: the case
\* is suspended at Review after the diagram was generated for a follow-up
C25_Witness ==
    /\ run = "suspended" /\ node = "review" /\ phase = "REVIEW"
    /\ interrupt_payload.type = "review_decision"
    /\ flowchart_confirmed
    /\ DOMAIN followup_answers # {}

\* C26: a whitespace-only reply to a follow-up question leaves followup_index,
\* followup_answers and clarification_counts unchanged (it is not counted as a
\* clarification request), and Followup asks the same question again at the
\* next suspension.
C26_EmptyReply ==
    /\ [][(FollowupReplyStep /\ resume[1] = Blank)
            => /\ UNCHANGED << followup_index, followup_answers, clarification_counts >>
               /\ last_turn'.outcome = "empty"
               /\ last_turn'.question = AskedQuestion /\ last_turn'.index = AskedIndex
               /\ run' = "running" /\ node' = "followup"]_vars
    /\ [][(Running("followup") /\ last_turn.type = "followup_question"
             /\ last_turn.reply = Blank)
            => /\ run' = "suspended"
               /\ interrupt_payload'.type = "followup_question"
               /\ interrupt_payload'.question = last_turn.question
               /\ interrupt_payload'.index = last_turn.index]_vars

\* the same question is pending again after a whitespace-only reply to it,
\* with one clarification already counted for it
C26_Witness ==
    /\ SuspendedAt("followup_question")
    /\ last_turn.type = "followup_question" /\ last_turn.reply = Blank
    /\ interrupt_payload.question = last_turn.question
    /\ Get(clarification_counts, FollowupKey(interrupt_payload.question), 0) = 1
    /\ interrupt_payload.question \notin DOMAIN followup_answers

\* Diagram completes: the node hands the case on to Followup or to Review
DiagramCompletes == Running("diagram") /\ node' \in {"followup", "review"}
PointerSet == pending_diagram_followup # << >> /\ IsSet(pending_diagram_followup[1].question)

\* with a pointer set, the pointer's question is recorded as answered
C27_PointerAnswered ==
    [][(DiagramCompletes /\ PointerSet)
         => /\ pending_diagram_followup[1].question \in DOMAIN followup_answers'
            /\ \A q \in DOMAIN followup_answers' :
                  q # pending_diagram_followup[1].question
                    => q \in DOMAIN followup_answers
                       /\ followup_answers'[q] = followup_answers[q]]_vars

\* with a pointer set, the index moves past the pointer and Followup runs next
C27_PointerRoute ==
    [][(DiagramCompletes /\ PointerSet)
         => /\ followup_index' = Max(followup_index, pending_diagram_followup[1].index + 1)
            /\ pending_diagram_followup' = << >>
            /\ phase' = "NEED_INFO"
            /\ run' = "running" /\ node' = "followup"
            /\ DOMAIN followup_answers \subseteq DOMAIN followup_answers'
            /\ \A q \in DOMAIN followup_answers :
                  q # Strip(pending_diagram_followup[1].question)
                    => followup_answers'[q] = followup_answers[q]]_vars

\* without a pointer Review runs next and the follow-up state is untouched
C27_NoPointerRoute ==
    [][(DiagramCompletes /\ ~PointerSet)
         => /\ phase' = "REVIEW"
            /\ run' = "running" /\ node' = "review"
            /\ UNCHANGED << followup_index, followup_answers >>]_vars

C27_IndexMonotone ==
    [][Running("diagram") => followup_index' >= followup_index]_vars

\* C27: when Diagram completes with a pending-diagram pointer set, the
\* pointer's question is recorded in followup_answers, followup_index becomes
\* max(old followup_index, pointer index + 1), the pointer is cleared, phase
\* becomes NEED_INFO and Followup runs next; with no pointer set, phase becomes
\* REVIEW and Review runs next. In both cases followup_index does not decrease
\* and no other follow-up answer is changed.
C27_DiagramCompletion ==
    /\ C27_PointerAnswered
    /\ C27_PointerRoute
    /\ C27_NoPointerRoute
    /\ C27_IndexMonotone

\* Diagram is about to handle the reply to its flowchart_confirm question
ConfirmReplyStep ==
    /\ Running("diagram") /\ resume # << >>
    /\ interrupt_payload.type = "flowchart_confirm"
Affirmative(reply) == Strip(reply) \in {"yes", "y", "correct", "confirmed"}

\* flowchart_confirmed becomes true only by an affirmative reply to a
\* flowchart_confirm suspension while a generated flowchart exists
C28_ConfirmedOnlyByYes ==
    [][(~flowchart_confirmed /\ flowchart_confirmed')
         => /\ ConfirmReplyStep /\ Affirmative(resume[1])
            /\ IsSet(flowchart_mermaid) /\ flowchart_mermaid' = flowchart_mermaid]_vars

\* a non-affirmative reply replaces the description and the flowchart by a
\* regenerated draft and keeps the case in Diagram, unconfirmed
C28_Regenerated ==
    [][(ConfirmReplyStep /\ ~Affirmative(resume[1]) /\ run' # "failed")
         => /\ process_description' = Strip(resume[1])
            /\ flowchart_mermaid' \in Mermaids
            /\ ~flowchart_confirmed'
            /\ last_turn'.outcome = "regenerated"
            /\ phase' = "DIAGRAM" /\ run' = "running" /\ node' = "diagram"]_vars

\* after a regeneration the invocation stays in Diagram and its suspension is
\* another flowchart_confirm
C28_ConfirmAgain ==
    [](last_turn.outcome = "regenerated"
         => /\ phase = "DIAGRAM" /\ node = "diagram" /\ ~flowchart_confirmed
            /\ run # "ended"
            /\ run = "suspended" => interrupt_payload.type = "flowchart_confirm")

\* C28: on the generate path flowchart_confirmed becomes true only as the
\* result of an affirmative reply to a flowchart_confirm suspension while a
\* generated flowchart exists; every non-affirmative reply replaces
\* process_description and the flowchart by a regenerated draft, keeps
\* flowchart_confirmed false and leads to another flowchart_confirm suspension
\* without leaving phase DIAGRAM.
C28_GeneratePath ==
    /\ C28_ConfirmedOnlyByYes
    /\ C28_Regenerated
    /\ C28_ConfirmAgain

\* diagram evidence is on file: an uploaded reference or a confirmed flowchart
EvidenceOnFile == DiagramComplete(diagram_upload, flowchart_mermaid, flowchart_confirmed)

\* Diagram hands the case on only with evidence on file
C29_LeavesWithEvidence ==
    [][(Running("diagram") /\ phase' # "DIAGRAM")
         => DiagramComplete(diagram_upload', flowchart_mermaid', flowchart_confirmed')]_vars

\* never both an uploaded reference and a confirmed flowchart
C29_AtMostOne ==
    [](~(_has_uploaded_diagram(diagram_upload) /\ _has_confirmed_mermaid))

\* with evidence on file no question of Diagram is pending
C29_NeverAsksAgain ==
    [](EvidenceOnFile
         => ~(run = "suspended" /\ SuspendingNode(interrupt_payload.type) = "diagram"))

\* C29: Diagram leaves phase DIAGRAM only when an uploaded diagram reference or
\* a confirmed generated flowchart exists; in every reachable state at most
\* one of the two exists, and once either is present the node never again asks
\* for a mode, an upload, a description or a confirmation.
C29_DiagramEvidence ==
    /\ C29_LeavesWithEvidence
    /\ C29_AtMostOne
    /\ C29_NeverAsksAgain

\* an uploaded reference (a name or a path) or a confirmed flowchart is on file
DiagramEvidence ==
    \/ diagram_upload # << >> /\ (IsSet(diagram_upload[1].path) \/ IsSet(diagram_upload[1].name))
    \/ Strip(flowchart_mermaid) # "" /\ flowchart_confirmed

\* Followup is about to run on an unanswered diagram question with diagram
\* evidence on file
AutoFillStep ==
    /\ Running("followup")
    /\ CurrentIndex < Len(Followups)
    /\ _is_diagram_request(CurrentQuestion)
    /\ DiagramEvidence

-----------------------------------------------------------------------------
\* a Checklist pass on a report the language-model service returned without
\* follow-up questions, from which questions were synthesized
SilentReports == {r \in LLMReports \cup {ReportLate, ReportTwins} : r.followup_questions = << >>}
SynthesisPass ==
    /\ ChecklistPass
    /\ \E r \in SilentReports : r.checklist = checklist_report'[1].checklist
    /\ checklist_report'[1].followup_questions # << >>

\* the checklist items a synthesized question may have come from
SourceItems(q, items) ==
    {it \in Range(items) : q \in {SynthesizedQuestion(RuleLibrary, it),
                                  SynthesizedQuestion(<< >>, it)}}

\* every synthesized question comes from an UNKNOWN BLOCKER/WARN item
C31_FromOpenItems ==
    [][SynthesisPass
         => \A q \in Range(checklist_report'[1].followup_questions) :
              \E it \in SourceItems(q, checklist_report'[1].checklist) :
                 it.status = "UNKNOWN" /\ it.severity \in {"BLOCKER", "WARN"}]_vars

\* at most 8 synthesized questions, none twice
C31_CappedDistinct ==
    [][SynthesisPass
         => LET qs == checklist_report'[1].followup_questions
            IN /\ Len(qs) <= 8
               /\ \A i, j \in 1..Len(qs) : qs[i] = qs[j] => i = j]_vars

\* every question from a BLOCKER item precedes every question from a WARN item
C31_BlockerFirst ==
    [][SynthesisPass
         => LET qs == checklist_report'[1].followup_questions
                sev(q) == {it.severity : it \in SourceItems(q, checklist_report'[1].checklist)}
            IN \A i, j \in 1..Len(qs) :
                 ("WARN" \in sev(qs[i]) /\ "BLOCKER" \in sev(qs[j])) => j < i]_vars

\* C31: when the language-model service returns no follow-up questions, the
\* questions Checklist synthesizes come only from checklist items with status
\* UNKNOWN and severity BLOCKER or WARN, number at most 8, contain no
\* duplicates, and are ranked by severity: every question from a BLOCKER item
\* precedes every question from a WARN item.
C31_SynthesizedRanked ==
    C31_FromOpenItems /\ C31_CappedDistinct /\ C31_BlockerFirst

-----------------------------------------------------------------------------
\* the required fields that are absent from, or empty in, the collected fields
AbsentRequired ==
    SelectSeq(required_fields,
              LAMBDA f : f \notin DOMAIN intake.fields \/ intake.fields[f] \in {None, ""})

\* s can be obtained from t by deleting elements
RECURSIVE IsSubsequence(_, _)
IsSubsequence(s, t) ==
    IF Len(s) = 0 THEN TRUE
    ELSE IF Len(t) = 0 THEN FALSE
    ELSE IF Head(s) = Head(t) THEN IsSubsequence(Tail(s), Tail(t))
    ELSE IsSubsequence(s, Tail(t))

\* C32: in every state persisted by Intake, missing_fields is a subsequence of
\* required_fields (same relative order) and consists of exactly those required
\* fields that are absent from, or empty in, the collected intake fields; the
\* set of collected intake field names never shrinks.
C32_MissingExact ==
    /\ [](IsSubsequence(missing_fields, required_fields) /\ missing_fields = AbsentRequired)
    /\ [][DOMAIN intake.fields \subseteq DOMAIN intake'.fields]_vars

\* Intake has persisted a permit case with some fields collected and others,
\* not a prefix of the required list, still missing
C32_Witness ==
    /\ Len(required_fields) > 1
    /\ missing_fields # << >>
    /\ Len(missing_fields) < Len(required_fields)
    /\ missing_fields = AbsentRequired
    /\ "submission_text" \in DOMAIN intake.fields
    /\ audit_log[Len(audit_log)] = make_event("intake_field_collected")

-----------------------------------------------------------------------------
\* the question at position i of the follow-up list holds the bypass sentinel
Bypassed(i) ==
    /\ Followups[i] \in DOMAIN followup_answers
    /\ followup_answers[Followups[i]] = BYPASSED_ANSWER_VALUE

\* the question at position i has an answer the submitter gave
Settled(i) == Followups[i] \in DOMAIN followup_answers /\ ~Bypassed(i)

\* Followup starts a pass in which the first question without a real answer,
\* from the stored index on, is the bypassed question at position i
BypassedIsNext(i) ==
    /\ Running("followup") /\ resume = << >>
    /\ i \in (followup_index + 1)..Len(Followups)
    /\ Bypassed(i)
    /\ \A j \in (followup_index + 1)..(i - 1) : Settled(j)

\* C33: a follow-up question that was bypassed after too many clarification
\* requests is revisited: in a later update-answers cycle started from Review,
\* when Followup comes to that question it asks it again, so that the
\* submitter can replace the bypass sentinel with a real answer.
C33_BypassedRevisited ==
    [][\A i \in 1..Len(Followups) :
          BypassedIsNext(i)
            => /\ run' = "suspended"
               /\ interrupt_payload'.type = "followup_question"
               /\ interrupt_payload'.question = Followups[i]]_vars

\* once recorded, the bypass sentinel is never replaced
C33_SentinelStays ==
    [][\A q \in DOMAIN followup_answers :
          followup_answers[q] = BYPASSED_ANSWER_VALUE
            => q \in DOMAIN followup_answers' /\ followup_answers'[q] = BYPASSED_ANSWER_VALUE]_vars

\* a question is never asked while it holds the bypass sentinel
C33_NeverAskedAgain ==
    (run = "suspended" /\ interrupt_payload.type = "followup_question")
      => ~(/\ interrupt_payload.question \in DOMAIN followup_answers
           /\ followup_answers[interrupt_payload.question] = BYPASSED_ANSWER_VALUE)

-----------------------------------------------------------------------------
\* no clarification counter exceeds the bound + 1
C34_CountsBounded ==
    \A k \in DOMAIN clarification_counts : clarification_counts[k] <= 4

\* no clarification counter is dropped or decreases
C34_CountsMonotone ==
    [][\A k \in DOMAIN clarification_counts :
          k \in DOMAIN clarification_counts' /\ clarification_counts'[k] >= clarification_counts[k]]_vars

\* a question holds the bypass sentinel only if its key was counted exactly 4 times
C34_SentinelAtFour ==
    \A q \in DOMAIN followup_answers :
       followup_answers[q] = BYPASSED_ANSWER_VALUE
         => Get(clarification_counts, FollowupKey(q), 0) = 4

\* C34: in every reachable state clarification_counts[key] <= 4 (bound + 1) for
\* every question key and no count ever decreases; a follow-up answer equals the
\* bypass sentinel "[BYPASSED]" only if the count for that question's key is
\* exactly 4.
C34_ClarificationCounts ==
    /\ [](C34_CountsBounded /\ C34_SentinelAtFour)
    /\ C34_CountsMonotone

-----------------------------------------------------------------------------
\* C35: in every reachable state, finalized = true implies phase = DONE and
\* reviewer_decision is set, and phase = DONE implies reviewer_decision is set;
\* a case reaches DONE only in a Review step that leaves a decision on record,
\* and Finalize never runs on a case without one.
C35_DoneHasDecision ==
    /\ [](/\ final_message_sent => (phase = "DONE" /\ IsSet(reviewer_decision))
          /\ phase = "DONE" => IsSet(reviewer_decision))
    /\ [][(phase # "DONE" /\ phase' = "DONE")
            => (Running("review") /\ IsSet(reviewer_decision'))]_vars
    /\ [][Running("finalize") => IsSet(reviewer_decision)]_vars

\* a case was finalized with a decision normalised from an unrecognised reply
C35_Witness ==
    /\ final_message_sent
    /\ phase = "DONE"
    /\ reviewer_decision = "NEED_INFO"
    /\ run = "ended"

-----------------------------------------------------------------------------
\* C36: DONE is absorbing: once phase = DONE, no step of any invocation changes
\* phase, reviewer_decision, checklist_report, followup_answers or
\* followup_index, and no invocation suspends again.
C36_DoneAbsorbing ==
    [][phase = "DONE"
         => /\ phase' = "DONE"
            /\ reviewer_decision' = reviewer_decision
            /\ checklist_report' = checklist_report
            /\ followup_answers' = followup_answers
            /\ followup_index' = followup_index
            /\ run' # "suspended"
            /\ node' \in {"route", "finalize"}]_vars

\* a finished case was invoked again and answered with the already-done notice
C36_Witness ==
    /\ phase = "DONE"
    /\ final_message_sent
    /\ run = "ended"
    /\ messages[Len(messages)] = Msg("assistant", AlreadyDoneNotice)
    /\ messages[Len(messages) - 1].role = "user"

-----------------------------------------------------------------------------
\* C37: in every reachable state, pending_diagram_followup is set only while
\* phase = DIAGRAM: it is set by Followup together with phase DIAGRAM, cleared
\* by the same Diagram transition that moves the phase back to NEED_INFO, and
\* its index is smaller than the length of checklist_report.followup_questions.
C37_PointerOnlyInDiagram ==
    /\ [](pending_diagram_followup # << >>
            => /\ phase = "DIAGRAM"
               /\ pending_diagram_followup[1].index >= 0
               /\ pending_diagram_followup[1].index < Len(Followups)
               /\ Followups[pending_diagram_followup[1].index + 1]
                    = pending_diagram_followup[1].question)
    /\ [][(pending_diagram_followup = << >> /\ pending_diagram_followup' # << >>)
            => (Running("followup") /\ phase' = "DIAGRAM" /\ node' = "diagram")]_vars
    /\ [][(pending_diagram_followup # << >> /\ pending_diagram_followup' = << >>)
            => (Running("diagram") /\ phase' = "NEED_INFO" /\ node' = "followup")]_vars
    /\ [][(pending_diagram_followup # << >> /\ pending_diagram_followup' # << >>)
            => pending_diagram_followup' = pending_diagram_followup]_vars

\* the pointer is held across a suspension of Diagram, for a question that is
\* not the first of the follow-up list
C37_Witness ==
    /\ pending_diagram_followup # << >>
    /\ pending_diagram_followup[1].index >= 1
    /\ phase = "DIAGRAM"
    /\ run = "suspended"
    /\ interrupt_payload.type = "diagram_upload"

-----------------------------------------------------------------------------
\* the case fields the nodes read to decide what to do next (messages and
\* audit_log only grow; the last user message is not changed by a node)
controlState ==
    << phase, application_type, application_categories, intake, required_fields,
       missing_fields, checklist_report, followup_index, followup_answers,
       clarification_counts, process_description, flowchart_mermaid,
       flowchart_confirmed, diagram_input_mode, diagram_upload,
       pending_diagram_followup, final_message_sent, reviewer_decision, resume >>

\* a node execution that hands over to the same node with nothing changed of
\* what that node reads: the next execution can repeat it, and so on for ever
IdleSelfLoop ==
    /\ run = "running" /\ run' = "running"
    /\ node' = node
    /\ controlState' = controlState

\* C39: every single invocation terminates: for any outputs of the
\* language-model service (an empty flowchart or an empty follow-up list
\* included) the chain of node executions of one invocation is finite and ends
\* in a suspension or in Finalize; no node hands over to itself, without
\* suspending, in a state in which it will do the same again.
C39_InvocationTerminates ==
    [][~IdleSelfLoop]_vars

\* outside Diagram no node execution repeats itself without progress
C39_OnlyDiagramLoops ==
    [][IdleSelfLoop => (node = "diagram" /\ flowchart_mermaid' = "")]_vars

-----------------------------------------------------------------------------
(* The run of a case whose callers keep it moving *)

\* the replies of a caller who always supplies a non-empty reply, asks for
\* one update cycle at most and corrects the draft flowchart once at most
\* before confirming it
LiveReplies ==
    {a \in RepliesTo(interrupt_payload) :
       /\ Strip(a) # ""
       /\ a = UPDATE_ANSWERS_TOKEN
            => make_event("user_requested_updates") \notin Range(audit_log)
       /\ (interrupt_payload.type = "flowchart_confirm" /\ Strip(a) # "yes")
            => make_event("flowchart_regenerated") \notin Range(audit_log)}

\* every suspension is resumed, up to the number of turns explored
LiveResume ==
    /\ run = "suspended"
    /\ UserTurns < MaxTurns
    /\ \E a \in LiveReplies : ResumeWith(a)

\* a node execution in which no call to the language-model service raises
LiveNode == NodeStep /\ run' # "failed"

LiveNext == Start \/ LiveResume \/ LiveNode

\* the engine runs a started invocation on, and the caller answers every
\* suspension
LiveSpec == Init /\ [][LiveNext]_vars /\ WF_vars(LiveNext)

CaseDone == phase = "DONE" /\ final_message_sent

\* the case is suspended at the last turn explored
AtHorizon == run = "suspended" /\ UserTurns = MaxTurns

\* within the turns explored, a case that is not at DONE can always take its
\* next step
C38_NeverStuck ==
    CaseDone \/ AtHorizon \/ ENABLED LiveNext

\* a case that keeps moving stops short of DONE only inside the flowchart
\* generation loop
C38_StopsOnlyInLoop ==
    (~CaseDone /\ ~AtHorizon /\ ~ENABLED LiveNext)
      => /\ run = "running" /\ node = "diagram"
         /\ flowchart_mermaid = ""
         /\ audit_log[Len(audit_log)] = make_event("flowchart_generated")

\* every step of a case that keeps moving adds a user message, or a node
\* execution to the invocation, so no run of it returns to an earlier state
C38_NoWayBack ==
    [][(UserTurns' > UserTurns) \/ (UserTurns' = UserTurns /\ steps' > steps)
       \/ (run = "new")]_vars

\* C38: if the language-model service never fails, every resume supplies a
\* non-empty reply, every flowchart_confirm suspension is eventually answered
\* affirmatively and from some point on the reviewer does not answer with the
\* update token, every started case reaches phase DONE with finalized = true:
\* within the turns explored, a case that is not there yet can always take
\* its next step, and no node execution leaves the case where it was.
C38_ReachesDone ==
    /\ [](C38_NeverStuck)
    /\ [][LiveNode => ~IdleSelfLoop]_vars
    /\ C38_NoWayBack

====
